---- MODULE Spec2Model ----
(***************************************************************************)
(* Session/credit backend of gdo-api: the credit ledger and the session    *)
(* lifecycle endpoints of function_app.py over the tables written by       *)
(* src/db/credits.py and src/db/sessions.py.                               *)
(*                                                                         *)
(* Every HTTP request is a process. A handler runs from one await on a     *)
(* storage statement to the next; each storage statement is atomic, and    *)
(* requests interleave between statements. Request slots are used once     *)
(* and in index order, so the finished requests are the history of the     *)
(* run and the index order of two requests is the order in which they      *)
(* started.                                                                *)
(*                                                                         *)
(* The specifications share the state: Spec is the session endpoints     *)
(* and the clock; SpecLedger is the credit ledger, with the calls of       *)
(* add_paid_credits and GET /users/credits; SpecRetention is the history   *)
(* preference and history_deletion_job next to the creation of sessions;   *)
(* SpecSweep is history_deletion_job over a stored history; SpecHistory    *)
(* is the two reads of the stored history; SpecAuth is the tokens of       *)
(* src/auth/middleware.py and require_auth; SpecAccounts is the users      *)
(* table with register, login, forgot-password and sync-user;              *)
(* SpecSummary is save_session_summary on its two paths; SpecPool is the   *)
(* connection pool of src/db/postgres.py; SpecGuard is require_auth        *)
(* around PATCH /users/me/preferences; SpecReset is forgot-password and    *)
(* reset-password next to the clock; SpecClient is one client that makes   *)
(* its requests one after the other with the token it holds.               *)
(*                                                                         *)
(* Time is in whole seconds. Callers carry the token subject that login    *)
(* issues, str(user id), so the subject of a user is the user.             *)
(***************************************************************************)
EXTENDS Integers, Sequences, FiniteSets, TLC

\* ---------------------------------------------------------------- bounds
NumUsers == 2
MaxFree == 1
MaxPaid == 1
MaxSessions == 2
MaxReq == 3
MaxTicks == 1
MaxGrants == 2
MaxPrefs == 2
MaxSweeps == 2
MaxTurns == 1
MaxHist == 2
MaxTokens == 1
MaxAuth == 2
MaxChain == 3
MaxChainTicks == 3
MaxAuthTicks == 2
MaxAccounts == 2
MaxAcct == 3
MaxPools == 3
MaxCalls == 4
MaxResetTicks == 2

\* ------------------------------------------------------------- constants
FreeMinutes == 5
PaidMinutes == 45
MaxSummary == 2000
GraceDays == 30
SweepLimit == 100
TOKEN_EXPIRY_HOURS == 1
TOKEN_REFRESH_THRESHOLD_MINUTES == 30

Users == 1..NumUsers
SessionIds == 1..MaxSessions
Reqs == 1..MaxReq
ConvoIds == {100}
Keys == SessionIds \cup ConvoIds
Grants == 1..MaxGrants
EntIds == 1..(NumUsers + MaxGrants)
OrderRefs == {"order-1"}
GrantCounts == {1}
Prefs == 1..MaxPrefs
Hists == 1..MaxHist
Toks == 1..MaxTokens
Auths == 1..MaxChain
AccountIds == 1..MaxAccounts
Accts == 1..MaxAcct
PoolIds == 1..MaxPools
Calls == 1..MaxCalls
GraceSeconds == GraceDays * 86400

\* SQL NULL / Python None, for numbers and for strings
NULL == -1
NONE == "NULL"

\* The order references a caller of add_paid_credits may pass: None, or one.
GrantRefs == {NONE} \cup OrderRefs

VARIABLES
    now,             \* wall clock (datetime.now / SQL NOW()), seconds
    ticks,           \* number of clock advances so far
    free_remaining,  \* per user: free credits left
    paid_remaining,  \* per user: paid credits left
    free0,           \* per user: free credits at the start of the run
    paid0,           \* per user: paid credits at the start of the run
    sessions,        \* table sessions: id -> row, or NoRow
    nextSid,         \* number of session ids handed out by uuid4
    req,             \* the requests: slot -> position, locals, response
    entitlements,    \* table entitlements: id -> row, or NoRow
    nextEid,         \* number of entitlement ids handed out so far
    grant,           \* the add_paid_credits calls: slot -> position, result
    store_history,   \* per user: users.store_history
    store_history_changed_at,        \* per user: time of the last change
    history_deletion_scheduled_at,   \* per user: due time, or NULL
    pref,            \* the PATCH preferences requests: slot -> record
    sweep,           \* history_deletion_job: position, batch, run number
    conversation_turns,  \* per session id: number of its conversation turns
    hist,            \* the history read requests: slot -> record
    JWT_SECRET,      \* the signing key of the process; "" when not set
    tok,             \* the create_token calls of login: slot -> result
    auth,            \* the requests through require_auth: slot -> record
    accounts,        \* table users: id -> row, or NoRow
    nextUid,         \* number of user ids handed out by uuid4
    nextReset,       \* number of reset tokens handed out by secrets
    acct,            \* the account requests: slot -> record
    environ,         \* os.environ has POSTGRES_HOST and POSTGRES_PASSWORD
    _pool,           \* the module global of src/db/postgres.py; 0 is None
    pools,           \* pool id -> "none", "open" or "closed"
    poolCall         \* the get_pool and close_pool calls: slot -> record

ledgerVars == <<entitlements, nextEid, grant>>

retentionVars == <<store_history, store_history_changed_at,
                   history_deletion_scheduled_at, pref, sweep>>

historyVars == <<conversation_turns, hist>>

authVars == <<JWT_SECRET, tok, auth>>

accountVars == <<accounts, nextUid, nextReset, acct>>

poolVars == <<environ, _pool, pools, poolCall>>

vars == <<now, ticks, free_remaining, paid_remaining, free0, paid0,
          sessions, nextSid, req, entitlements, nextEid, grant,
          store_history, store_history_changed_at,
          history_deletion_scheduled_at, pref, sweep,
          conversation_turns, hist, JWT_SECRET, tok, auth,
          accounts, nextUid, nextReset, acct, environ, _pool, pools, poolCall>>

\* ------------------------------------------------------------------ rows
NoRow == [absent |-> TRUE]

\* A summary text is its white space at the start, its characters from the
\* first visible one to the last, and its white space at the end, each as
\* a number of characters. NoText is None / SQL NULL.
NoText == [absent |-> TRUE]

Text(lead, body, trail) == [lead |-> lead, body |-> body, trail |-> trail]

NoCredit == [success |-> FALSE, session_type |-> NONE,
             duration_minutes |-> NULL, message |-> NONE]

NoResp == [code |-> 0, message |-> NONE, error |-> NONE, status |-> NONE,
           session_id |-> 0, session_type |-> NONE,
           duration_minutes |-> NULL, seconds |-> NULL,
           free_remaining |-> NULL, paid_remaining |-> NULL]

IdleReq == [pc |-> "idle", kind |-> NONE, user |-> 0, sid |-> 0,
            key |-> 0, summary |-> NoText, text |-> NoText,
            credit |-> NoCredit, seen |-> NoRow,
            at |-> NULL, wrote |-> FALSE, resp |-> NoResp]

NoGrantResult == [entitlement_id |-> 0, sessions_added |-> NULL,
                  new_balance |-> NULL, already_processed |-> FALSE]

IdleCall == [pc |-> "idle", kind |-> NONE, pool |-> 0, raised |-> NONE]

IdleGrant == [pc |-> "idle", user |-> 0, count |-> 0, ref |-> NONE,
              eid |-> 0, result |-> NoGrantResult]

NoPreferences == [store_history |-> FALSE,
                  store_history_changed_at |-> NULL,
                  history_deletion_scheduled_at |-> NULL]

IdlePref == [pc |-> "idle", user |-> 0, value |-> FALSE, at |-> NULL,
             before |-> NoPreferences, runs |-> 0, code |-> 0,
             resp |-> NoPreferences]

IdleSweep == [pc |-> "idle", batch |-> {}, user |-> 0, run |-> 0,
              errors |-> {}, sessions_deleted |-> 0, log |-> NONE]

NoHistory == [sessions |-> {}, total |-> NULL, has_more |-> FALSE,
              message |-> NONE, status |-> NONE, session_id |-> 0,
              messages |-> NULL]

IdleHist == [pc |-> "idle", kind |-> NONE, user |-> 0, sid |-> 0,
             limit |-> 0, offset |-> 0, preferences |-> NoPreferences,
             owner |-> NULL, total |-> NULL, code |-> 0,
             resp |-> NoHistory]

\* A token payload; a claim that is absent is NONE or NULL. `role` stands
\* for the extra claims.
NoPayload == [sub |-> NONE, iat |-> NULL, exp |-> NULL, role |-> NONE]

NoToken == [payload |-> NoPayload, signature |-> <<>>]

NoHeader == [scheme |-> NONE, token |-> NoToken]

\* The outcome of create_token and of validate_token: the value returned,
\* or the AuthError raised.
NoAuthResult == [ok |-> FALSE, token |-> NoToken, payload |-> NoPayload,
                 message |-> NONE, status_code |-> 0]

IdleTok == [pc |-> "idle", user_id |-> NONE, at |-> NULL,
            result |-> NoAuthResult]

NoHttpResponse == [status_code |-> 0, body |-> NONE, new_token |-> NoToken,
                   expires_in |-> NONE]

IdleAuth == [pc |-> "idle", header |-> NoHeader, at |-> NULL,
             user |-> NoPayload, new_token |-> NoToken, called |-> FALSE,
             handler |-> NoHttpResponse, response |-> NoHttpResponse]

\* An account request: register, login, forgot-password or sync-user.
IdleAcct == [pc |-> "idle", kind |-> NONE, email |-> <<>>,
             password |-> <<>>, wp_user_id |-> NULL, user |-> 0,
             taken |-> FALSE, code |-> 0, message |-> NONE,
             user_id |-> NONE, token |-> NoToken, sync_status |-> NONE,
             reset_token |-> 0, at |-> NULL]

Min(a, b) == IF a < b THEN a ELSE b
Max(a, b) == IF a > b THEN a ELSE b

\* len(text)
len(text) == text.lead + text.body + text.trail

\* text[:n]
Slice(text, n) ==
    LET lead == Min(text.lead, n)
        body == Min(text.body, n - lead)
    IN  Text(lead, body, Min(text.trail, n - lead - body))

\* text.strip(), for a text whose body has no white space at its ends.
strip_text(text) == Text(0, text.body, 0)

\* The summaries of the requests of the sessions endpoints: one that is too
\* long. Summaries adds those with white space around the 2000th character,
\* a short one and a blank one.
SummaryLens == {Text(0, MaxSummary + 1, 0)}
Summaries == SummaryLens \cup {Text(1, MaxSummary, 0),
                               Text(0, MaxSummary - 1, 2),
                               Text(0, 3, 0), Text(2, 0, 0)}

Exists(s) == sessions[s] # NoRow

\* A request slot may start when every lower slot has started.
CanStart(r) ==
    /\ req[r].pc = "idle"
    /\ \A q \in Reqs : q < r => req[q].pc # "idle"

\* ------------------------------------------------------ the credit ledger
\* Stored function use_session_with_duration(user, expert): one atomic
\* statement that takes a free credit if one is left, else a paid one.
use_session_with_duration(u) ==
    IF free_remaining[u] > 0
    THEN [success |-> TRUE, session_type |-> "freemium",
          duration_minutes |-> FreeMinutes, message |-> "ok",
          free |-> free_remaining[u] - 1, paid |-> paid_remaining[u]]
    ELSE IF paid_remaining[u] > 0
    THEN [success |-> TRUE, session_type |-> "paid",
          duration_minutes |-> PaidMinutes, message |-> "ok",
          free |-> free_remaining[u], paid |-> paid_remaining[u] - 1]
    ELSE [success |-> FALSE, session_type |-> NONE,
          duration_minutes |-> NULL, message |-> "No sessions available",
          free |-> free_remaining[u], paid |-> paid_remaining[u]]

\* consume_session_credit: the dict built from the row of the function.
consume_session_credit_always(row) ==
    [success |-> TRUE, session_type |-> row.session_type,
     duration_minutes |-> row.duration_minutes, message |-> row.message]

consume_session_credit(row) ==
    [success |-> row.success, session_type |-> row.session_type,
     duration_minutes |-> row.duration_minutes, message |-> row.message]

\* get_user_credits: the balances of the user.
get_user_credits(u) ==
    [free_remaining |-> free_remaining[u],
     paid_remaining |-> paid_remaining[u],
     total_available |-> free_remaining[u] + paid_remaining[u]]

\* An entitlement row: a grant of sessions_total paid credits to a user.
entitlement_row(u, sessions_count, order_reference) ==
    [user_id |-> u, sessions_total |-> sessions_count,
     order_reference |-> order_reference]

\* The paid credits that get_user_credits counts for an entitlement row
\* from the moment the row is inserted.
entitlement_credits(row) == row.sessions_total

\* add_paid_credits: if order_reference (None and '' are false in Python)
HasReference(order_reference) ==
    order_reference # NONE /\ order_reference # ""

\* add_paid_credits: SELECT id FROM entitlements WHERE order_reference = $1
existing_entitlement_none(order_reference) == {}

existing_entitlement(order_reference) ==
    {e \in EntIds : /\ entitlements[e] # NoRow
                    /\ entitlements[e].order_reference = order_reference}

\* A call of add_paid_credits may start when every lower slot has started.
CanStartGrant(g) ==
    /\ grant[g].pc = "idle"
    /\ \A h \in Grants : h < g => grant[h].pc # "idle"

\* ------------------------------------------------ the retention preference
\* get_user_preferences: the preference columns of the user's row.
get_user_preferences(u) ==
    [store_history |-> store_history[u],
     store_history_changed_at |-> store_history_changed_at[u],
     history_deletion_scheduled_at |-> history_deletion_scheduled_at[u]]

\* update_user_preferences: the preference columns after the update. A
\* change from true to false schedules the deletion at now + the grace
\* period, a change from false to true clears the schedule, and a call
\* that repeats the stored value changes nothing.
update_user_preferences(u, value) ==
    LET old == get_user_preferences(u) IN
    IF value = old.store_history THEN old
    ELSE [store_history |-> value,
          store_history_changed_at |-> now,
          history_deletion_scheduled_at |->
              IF value THEN NULL ELSE now + GraceSeconds]

\* update_user_preferences_endpoint: the body of the 200 answer.
PreferencesResponse_unscheduled(preferences) ==
    [store_history |-> preferences.store_history,
     store_history_changed_at |-> preferences.store_history_changed_at,
     history_deletion_scheduled_at |-> NULL]

PreferencesResponse(preferences) ==
    [store_history |-> preferences.store_history,
     store_history_changed_at |-> preferences.store_history_changed_at,
     history_deletion_scheduled_at |->
         preferences.history_deletion_scheduled_at]

\* A PATCH request may start when every lower slot has started.
CanStartPref(p) ==
    /\ pref[p].pc = "idle"
    /\ \A q \in Prefs : q < p => pref[q].pc # "idle"

\* get_users_pending_deletion: SELECT id FROM users WHERE store_history =
\* FALSE AND history_deletion_scheduled_at IS NOT NULL AND
\* history_deletion_scheduled_at <= NOW() LIMIT $1 -- the possible results.
get_users_pending_deletion_unfiltered(limit) ==
    {b \in SUBSET Users :
        Cardinality(b) = Min(limit, Cardinality(Users))}

get_users_pending_deletion(limit) ==
    LET due == {u \in Users :
                   /\ store_history[u] = FALSE
                   /\ history_deletion_scheduled_at[u] # NULL
                   /\ history_deletion_scheduled_at[u] <= now} IN
    {b \in SUBSET due : Cardinality(b) = Min(limit, Cardinality(due))}

\* delete_user_history: DELETE FROM sessions WHERE user_id = $1 -- the
\* table after the statement.
delete_user_history_all(u) ==
    [s \in SessionIds |-> NoRow]

delete_user_history(u) ==
    [s \in SessionIds |->
        IF Exists(s) /\ sessions[s].user_id = u THEN NoRow ELSE sessions[s]]

\* The command tag of the statement, "DELETE X", as the list of its words.
delete_command_tag(u) ==
    <<"DELETE", Cardinality({s \in SessionIds :
                    Exists(s) /\ sessions[s].user_id = u})>>

\* count = int(result.split()[-1]) if result else 0
deleted_count(result) ==
    IF Len(result) = 0 THEN 0 ELSE result[Len(result)]

\* conversation_turns.session_id references sessions ON DELETE CASCADE: the
\* turns that are left when the sessions table becomes `table`.
cascade_conversation_turns(table) ==
    [s \in SessionIds |->
        IF table[s] = NoRow THEN 0 ELSE conversation_turns[s]]

\* clear_deletion_schedule: UPDATE users SET
\* history_deletion_scheduled_at = NULL WHERE id = $1
clear_deletion_schedule(u) ==
    [history_deletion_scheduled_at EXCEPT ![u] = NULL]

\* -------------------------------------------------------------- tokens
\* The keys a token may be signed with: the key of the process, and a key
\* that is not the key of the process.
SigningKeys == {"key-1", "key-2"}

\* str(user["id"])
str(u) == ToString(u)

\* The HS256 signature of a payload under a key: equal for equal payload
\* and key only.
Sign(payload, key) == <<key, payload>>

\* jwt.encode(payload, key, algorithm="HS256")
jwt_encode(payload, key) ==
    [payload |-> payload, signature |-> Sign(payload, key)]

\* jwt.decode(token, key, algorithms=["HS256"], options={"require": ["sub",
\* "exp", "iat"]}) at time t: the signature first, then the claims.
jwt_decode_unverified(token, key, t) ==
    IF \/ token.payload.sub = NONE
       \/ token.payload.exp = NULL
       \/ token.payload.iat = NULL
    THEN "MissingRequiredClaimError"
    ELSE IF token.payload.exp <= t
    THEN "ExpiredSignatureError"
    ELSE "ok"

jwt_decode_unexpired(token, key, t) ==
    IF token.signature # Sign(token.payload, key)
    THEN "InvalidSignatureError"
    ELSE IF \/ token.payload.sub = NONE
            \/ token.payload.exp = NULL
            \/ token.payload.iat = NULL
    THEN "MissingRequiredClaimError"
    ELSE "ok"

jwt_decode(token, key, t) ==
    IF token.signature # Sign(token.payload, key)
    THEN "InvalidSignatureError"
    ELSE IF \/ token.payload.sub = NONE
            \/ token.payload.exp = NULL
            \/ token.payload.iat = NULL
    THEN "MissingRequiredClaimError"
    ELSE IF token.payload.exp <= t
    THEN "ExpiredSignatureError"
    ELSE "ok"

\* raise AuthError(message, status_code=401)
AuthError(message, status_code) ==
    [NoAuthResult EXCEPT !.message = message, !.status_code = status_code]

\* validate_token at time t: the payload, or the AuthError.
validate_token_trusting(token, t) ==
    [NoAuthResult EXCEPT !.ok = TRUE, !.payload = token.payload]

validate_token(token, t) ==
    IF JWT_SECRET = ""
    THEN AuthError("Authentication not configured", 500)
    ELSE LET decoded == jwt_decode(token, JWT_SECRET, t) IN
         IF decoded = "ok"
         THEN [NoAuthResult EXCEPT !.ok = TRUE, !.payload = token.payload]
         ELSE IF decoded = "ExpiredSignatureError"
         THEN AuthError("Token has expired", 401)
         ELSE AuthError("Invalid token", 401)

\* create_token at time t: the token, or the AuthError. The extra claims
\* are written over the payload (payload.update).
create_token(user_id, extra_claims, t) ==
    IF JWT_SECRET = ""
    THEN AuthError("JWT_SIGNING_KEY not configured", 500)
    ELSE [NoAuthResult EXCEPT
            !.ok = TRUE,
            !.token = jwt_encode(
                [sub |-> user_id, iat |-> t,
                 exp |-> t + TOKEN_EXPIRY_HOURS * 3600,
                 role |-> extra_claims],
                JWT_SECRET)]

\* should_refresh_token at time t.
should_refresh_token_always(payload, t) ==
    payload.exp # NULL

should_refresh_token_never(payload, t) == FALSE

should_refresh_token(payload, t) ==
    IF payload.exp = NULL \/ payload.exp = 0
    THEN FALSE
    ELSE payload.exp - t < TOKEN_REFRESH_THRESHOLD_MINUTES * 60

\* get_refreshed_token at time t: the outcome of create_token for the
\* subject and the extra claims of the payload, or None (not ok, no error).
get_refreshed_token(payload, t) ==
    IF ~should_refresh_token(payload, t) THEN NoAuthResult
    ELSE IF payload.sub = NONE \/ payload.sub = "" THEN NoAuthResult
    ELSE create_token(payload.sub, payload.role, t)

\* get_token_from_header: the token, or the AuthError.
get_token_from_header(header) ==
    IF header.scheme = NONE
    THEN AuthError("Missing Authorization header", 401)
    ELSE IF header.scheme # "Bearer "
    THEN AuthError("Invalid Authorization header format", 401)
    ELSE IF header.token = NoToken
    THEN AuthError("Empty token", 401)
    ELSE [NoAuthResult EXCEPT !.ok = TRUE, !.token = header.token]

\* A create_token call of login, and a request through require_auth, may
\* start when every lower slot has started.
CanStartTok(k) ==
    /\ tok[k].pc = "idle"
    /\ \A q \in Toks : q < k => tok[q].pc # "idle"

CanStartAuth(a) ==
    /\ auth[a].pc = "idle"
    /\ \A q \in Auths : q < a => auth[q].pc # "idle"

\* ------------------------------------------------------- the history reads
\* A history read may start when every lower slot has started.
CanStartHist(h) ==
    /\ hist[h].pc = "idle"
    /\ \A q \in Hists : q < h => hist[q].pc # "idle"

\* if not preferences["store_history"]
HistoryDisabled_never(preferences) == FALSE

HistoryDisabled(preferences) == ~preferences.store_history

\* The 200 answer of the listing while the storage is disabled.
DisabledResponse ==
    [NoHistory EXCEPT !.sessions = {}, !.total = 0, !.has_more = FALSE,
                      !.message = "History storage is disabled"]

\* The 404 answer of get_session_messages_endpoint.
NotFoundResponse ==
    [NoHistory EXCEPT
        !.status = "error",
        !.message = "Session not found or history storage disabled"]

\* get_user_sessions_for_history: SELECT COUNT(*) FROM sessions WHERE
\* user_id = $1
history_total(u) ==
    Cardinality({s \in SessionIds : Exists(s) /\ sessions[s].user_id = u})

\* ... WHERE s.user_id = $1 ORDER BY s.created_at DESC LIMIT $2 OFFSET $3:
\* the possible pages, as sets of session ids (rows of one creation time
\* come in any order).
history_page(u, limit, offset) ==
    LET rows == {s \in SessionIds : Exists(s) /\ sessions[s].user_id = u}
        n == Cardinality(rows)
        skip == Min(offset, n)
        take == Min(limit, n - skip)
        NotAfter(A, B) == \A a \in A, b \in B :
                             sessions[a].created_at >= sessions[b].created_at
    IN {P \in SUBSET rows :
          /\ Cardinality(P) = take
          /\ \E S \in SUBSET (rows \ P) :
               /\ Cardinality(S) = skip
               /\ NotAfter(S, P)
               /\ NotAfter(S, rows \ (P \cup S))
               /\ NotAfter(P, rows \ (P \cup S))}

\* "has_more": (offset + limit) < (total or 0)
has_more(total, limit, offset) == (offset + limit) < total

\* get_session_messages: SELECT user_id FROM sessions WHERE id = $1
session_owner(s) == IF Exists(s) THEN sessions[s].user_id ELSE NULL

\* if session_owner is None or session_owner != user_id: return None
NotSessionOwner_unknown(owner, u) == owner = NULL

NotSessionOwner(owner, u) == owner = NULL \/ owner # u

\* SELECT ... FROM conversation_turns WHERE session_id = $1: the rows.
session_turns(s) == conversation_turns[s]

\* ------------------------------------------------------ the sessions table
\* Column defaults of a row inserted without status and mode.
DefaultStatus == "active"
DefaultMode == "intake"

\* create_session: the row inserted for a consumed credit.
create_session_short(u, session_type, duration_minutes) ==
    [user_id |-> u, convo_id |-> NULL, mode |-> "intake",
     session_type |-> session_type, duration_minutes |-> FreeMinutes,
     created_at |-> now, expires_at |-> now + FreeMinutes * 60,
     status |-> "active", ended_at |-> NULL, summary |-> NoText]

create_session_seconds(u, session_type, duration_minutes) ==
    [user_id |-> u, convo_id |-> NULL, mode |-> "intake",
     session_type |-> session_type, duration_minutes |-> duration_minutes,
     created_at |-> now, expires_at |-> now + duration_minutes,
     status |-> "active", ended_at |-> NULL, summary |-> NoText]

create_session(u, session_type, duration_minutes) ==
    [user_id |-> u, convo_id |-> NULL, mode |-> "intake",
     session_type |-> session_type, duration_minutes |-> duration_minutes,
     created_at |-> now, expires_at |-> now + duration_minutes * 60,
     status |-> "active", ended_at |-> NULL, summary |-> NoText]

\* get_session_by_id: the row, or None.
get_session_by_id(s) == sessions[s]

\* update_session_status: UPDATE sessions SET status WHERE id.
update_session_status_lost(s, status) == sessions

update_session_status(s, status) ==
    IF Exists(s)
    THEN [sessions EXCEPT ![s].status = status]
    ELSE sessions

\* end_session: UPDATE sessions SET mode, status, ended_at WHERE id.
end_session(s) ==
    IF Exists(s)
    THEN [sessions EXCEPT ![s].mode = "ended", ![s].status = "ended",
                          ![s].ended_at = now]
    ELSE sessions

\* duration_used_seconds of the row returned by end_session.
duration_used_remaining(row) == row.expires_at - row.ended_at

duration_used(row) == row.ended_at - row.created_at

\* db save_session_summary, first statement: the id of the row whose id
\* (a UUID key) or convo_id (any other key) is the key; 0 when none.
FoundIds(key) ==
    IF key \in SessionIds
    THEN {s \in SessionIds : s = key /\ Exists(s)}
    ELSE {s \in SessionIds : Exists(s) /\ sessions[s].convo_id = key}

\* save_session_summary endpoint: not summary or not summary.strip()
MissingSummary(summary) == len(strip_text(summary)) = 0

\* save_session_summary endpoint: summary[:2000] when len(summary) > 2000
Truncate_never(summary) == summary

Truncate(summary) ==
    IF len(summary) > MaxSummary THEN Slice(summary, MaxSummary) ELSE summary

\* db save_session_summary: summary[:2000] if summary else ""
db_truncate(summary) ==
    IF len(summary) > 0 THEN Slice(summary, MaxSummary) ELSE Text(0, 0, 0)

\* The legacy statement's conflict target: the rows with this convo_id.
ConflictIds(key) ==
    {s \in SessionIds : Exists(s) /\ sessions[s].convo_id = key}

\* The legacy statement's new row: no owner, defaults elsewhere.
legacy_row(key, summary) ==
    [user_id |-> NULL, convo_id |-> key, mode |-> DefaultMode,
     session_type |-> NONE, duration_minutes |-> NULL,
     created_at |-> now, expires_at |-> NULL,
     status |-> DefaultStatus, ended_at |-> NULL, summary |-> summary]

\* db save_session_summary, the row inserted when no row was found.
summary_row(u, key, summary) ==
    [user_id |-> u, convo_id |-> key, mode |-> DefaultMode,
     session_type |-> NONE, duration_minutes |-> NULL,
     created_at |-> now, expires_at |-> NULL,
     status |-> DefaultStatus, ended_at |-> NULL, summary |-> summary]

\* ------------------------------------------------- decisions of handlers
\* create_session_endpoint: if not credit_result["success"]
CreditDenied_never(credit_result) == FALSE

CreditDenied(credit_result) == ~credit_result.success

\* get_session_endpoint / end_session_endpoint: ownership check
NotOwner_never(session, u) == FALSE

NotOwner(session, u) == session.user_id # u

\* get_session_endpoint: status == "active" and expires_at and now >= expires_at
IsExpired_late(status, expires_at, t) ==
    status = "active" /\ expires_at # NULL /\ t > expires_at

IsExpired(status, expires_at, t) ==
    status = "active" /\ expires_at # NULL /\ t >= expires_at

\* get_session_endpoint: remaining_seconds
remaining_seconds_minutes(status, expires_at, t) ==
    IF expires_at # NULL /\ status = "active"
    THEN Max(0, (expires_at - t) \div 60)
    ELSE 0

remaining_seconds_any_status(status, expires_at, t) ==
    IF expires_at # NULL
    THEN Max(0, expires_at - t)
    ELSE 0

remaining_seconds(status, expires_at, t) ==
    IF expires_at # NULL /\ status = "active"
    THEN Max(0, expires_at - t)
    ELSE 0

\* end_session_endpoint: session.get("status") == "ended"
AlreadyEnded_never(session) == FALSE

AlreadyEnded(session) == session.status = "ended"

\* ------------------------------------------------------------- responses
Error(code, message) == [NoResp EXCEPT !.code = code, !.message = message]

\* create_session_endpoint: the 402 answer, with the balances attached.
NoCreditsResponse_generic(credits) ==
    Error(500, "Failed to create session")

NoCreditsResponse(credits) ==
    [NoResp EXCEPT
        !.code = 402, !.error = "NO_CREDITS",
        !.message = "No sessions available. Please purchase more.",
        !.free_remaining = credits.free_remaining,
        !.paid_remaining = credits.paid_remaining]

Finish(r, fields) == [req EXCEPT ![r] = fields]

\* Session ids still to come: inserts that started requests may yet make.
\* The ids a request may name: those handed out, and one unknown id.
KnownIds == {s \in SessionIds : s <= nextSid + 1}
KnownKeys == KnownIds \cup ConvoIds

Pending ==
    Cardinality({q \in Reqs :
        \/ req[q].pc = "consumed" /\ req[q].credit.success
        \/ req[q].pc = "saving" /\ req[q].sid = 0})
CanInsert == nextSid + Pending < MaxSessions

\* ------------------------------------------------------------------ Init
Init ==
    /\ now = 0
    /\ ticks = 0
    /\ free_remaining \in [Users -> 0..MaxFree]
    /\ paid_remaining \in [Users -> 0..MaxPaid]
    /\ free0 = free_remaining
    /\ paid0 = paid_remaining
    /\ sessions = [s \in SessionIds |-> NoRow]
    /\ nextSid = 0
    /\ req = [r \in Reqs |-> IdleReq]
    /\ entitlements = [e \in EntIds |->
           IF e \in Users /\ paid_remaining[e] > 0
           THEN entitlement_row(e, paid_remaining[e], NONE)
           ELSE NoRow]
    /\ nextEid = NumUsers
    /\ grant = [g \in Grants |-> IdleGrant]
    /\ store_history = [u \in Users |-> TRUE]
    /\ store_history_changed_at = [u \in Users |-> NULL]
    /\ history_deletion_scheduled_at = [u \in Users |-> NULL]
    /\ pref = [p \in Prefs |-> IdlePref]
    /\ sweep = IdleSweep
    /\ conversation_turns = [s \in SessionIds |-> 0]
    /\ hist = [h \in Hists |-> IdleHist]
    /\ JWT_SECRET = "key-1"
    /\ tok = [k \in Toks |-> IdleTok]
    /\ auth = [a \in Auths |-> IdleAuth]
    /\ accounts = [i \in AccountIds |-> NoRow]
    /\ nextUid = 0
    /\ nextReset = 0
    /\ acct = [a \in Accts |-> IdleAcct]
    /\ environ = TRUE
    /\ _pool = 0
    /\ pools = [p \in PoolIds |-> "none"]
    /\ poolCall = [c \in Calls |-> IdleCall]

\* ----------------------------------------------------------------- clock
\* The clock moves on by a second, to the expiry of a session, or to a
\* deletion time that is scheduled or was scheduled and then cancelled.
Instants ==
    {now + 1} \cup {sessions[s].expires_at : s \in {x \in SessionIds :
                        Exists(x) /\ sessions[x].expires_at > now}}
              \cup {history_deletion_scheduled_at[u] : u \in {x \in Users :
                        history_deletion_scheduled_at[x] > now}}
              \cup {pref[p].before.history_deletion_scheduled_at :
                        p \in {q \in Prefs :
                          pref[q].before.history_deletion_scheduled_at > now}}

Tick ==
    /\ ticks < MaxTicks
    /\ \E t \in Instants : now' = t
    /\ ticks' = ticks + 1
    /\ UNCHANGED <<free_remaining, paid_remaining, free0, paid0,
                   sessions, nextSid, req>>
    /\ UNCHANGED ledgerVars
    /\ UNCHANGED retentionVars
    /\ UNCHANGED historyVars
    /\ UNCHANGED authVars
    /\ UNCHANGED accountVars
    /\ UNCHANGED poolVars

\* -------------------------------------------------------- POST /sessions
\* consume_session_credit(user): the atomic stored function.
CreateSessionConsume(r, u) ==
    /\ CanStart(r)
    /\ (free_remaining[u] + paid_remaining[u] > 0) => CanInsert
    /\ LET row == use_session_with_duration(u) IN
        /\ free_remaining' = [free_remaining EXCEPT ![u] = row.free]
        /\ paid_remaining' = [paid_remaining EXCEPT ![u] = row.paid]
        /\ req' = Finish(r, [IdleReq EXCEPT
                     !.pc = "consumed", !.kind = "create", !.user = u,
                     !.credit = consume_session_credit(row)])
    /\ UNCHANGED <<now, ticks, free0, paid0, sessions, nextSid>>
    /\ UNCHANGED ledgerVars
    /\ UNCHANGED retentionVars
    /\ UNCHANGED historyVars
    /\ UNCHANGED authVars
    /\ UNCHANGED accountVars
    /\ UNCHANGED poolVars

\* not success: get_user_credits, then 402 NO_CREDITS with the balances.
CreateSessionNoCredits(r) ==
    /\ req[r].pc = "consumed"
    /\ CreditDenied(req[r].credit)
    /\ LET credits == get_user_credits(req[r].user) IN
        req' = Finish(r, [req[r] EXCEPT
                 !.pc = "done", !.resp = NoCreditsResponse(credits)])
    /\ UNCHANGED <<now, ticks, free_remaining, paid_remaining, free0, paid0,
                   sessions, nextSid>>
    /\ UNCHANGED ledgerVars
    /\ UNCHANGED retentionVars
    /\ UNCHANGED historyVars
    /\ UNCHANGED authVars
    /\ UNCHANGED accountVars
    /\ UNCHANGED poolVars

\* success: create_session inserts the row, then 201 with the session.
CreateSessionInsert(r) ==
    /\ req[r].pc = "consumed"
    /\ ~CreditDenied(req[r].credit)
    /\ nextSid < MaxSessions
    /\ LET s == nextSid + 1
           row == create_session(req[r].user, req[r].credit.session_type,
                                 req[r].credit.duration_minutes) IN
        /\ sessions' = [sessions EXCEPT ![s] = row]
        /\ nextSid' = s
        /\ req' = Finish(r, [req[r] EXCEPT
                     !.pc = "done", !.sid = s,
                     !.resp = [NoResp EXCEPT
                         !.code = 201, !.message = "ok",
                         !.session_id = s, !.status = row.status,
                         !.session_type = row.session_type,
                         !.duration_minutes = row.duration_minutes]])
    /\ UNCHANGED <<now, ticks, free_remaining, paid_remaining, free0, paid0>>
    /\ UNCHANGED ledgerVars
    /\ UNCHANGED retentionVars
    /\ UNCHANGED historyVars
    /\ UNCHANGED authVars
    /\ UNCHANGED accountVars
    /\ UNCHANGED poolVars

\* success, but create_session raises: except Exception -> 500.
CreateSessionFail_refund(r) ==
    /\ req[r].pc = "consumed"
    /\ ~CreditDenied(req[r].credit)
    /\ free_remaining' = [free_remaining EXCEPT ![req[r].user] =
           @ + (IF req[r].credit.session_type = "freemium" THEN 1 ELSE 0)]
    /\ paid_remaining' = [paid_remaining EXCEPT ![req[r].user] =
           @ + (IF req[r].credit.session_type = "paid" THEN 1 ELSE 0)]
    /\ req' = Finish(r, [req[r] EXCEPT
                 !.pc = "done",
                 !.resp = Error(500, "Failed to create session")])
    /\ UNCHANGED <<now, ticks, free0, paid0, sessions, nextSid>>
    /\ UNCHANGED ledgerVars
    /\ UNCHANGED retentionVars
    /\ UNCHANGED historyVars
    /\ UNCHANGED authVars
    /\ UNCHANGED accountVars
    /\ UNCHANGED poolVars

CreateSessionFail(r) ==
    /\ req[r].pc = "consumed"
    /\ ~CreditDenied(req[r].credit)
    /\ req' = Finish(r, [req[r] EXCEPT
                 !.pc = "done",
                 !.resp = Error(500, "Failed to create session")])
    /\ UNCHANGED <<now, ticks, free_remaining, paid_remaining, free0, paid0,
                   sessions, nextSid>>
    /\ UNCHANGED ledgerVars
    /\ UNCHANGED retentionVars
    /\ UNCHANGED historyVars
    /\ UNCHANGED authVars
    /\ UNCHANGED accountVars
    /\ UNCHANGED poolVars

\* ---------------------------------------------------- GET /sessions/{id}
\* get_session_by_id; 404 unknown; 403 not the owner; now = datetime.now();
\* a session that is not to be marked expired is answered at once.
GetSessionRead(r, u, s) ==
    /\ CanStart(r)
    /\ LET session == get_session_by_id(s)
           base == [IdleReq EXCEPT !.kind = "get", !.user = u, !.sid = s,
                                   !.seen = session, !.at = now] IN
        req' = Finish(r,
            IF session = NoRow
            THEN [base EXCEPT !.pc = "done",
                              !.resp = Error(404, "Session not found")]
            ELSE IF NotOwner(session, u)
            THEN [base EXCEPT !.pc = "done",
                              !.resp = Error(403, "Not authorized")]
            ELSE IF IsExpired(session.status, session.expires_at, now)
            THEN [base EXCEPT !.pc = "expiring"]
            ELSE [base EXCEPT !.pc = "done",
                    !.resp = [NoResp EXCEPT
                        !.code = 200, !.session_id = s,
                        !.status = session.status,
                        !.session_type = session.session_type,
                        !.seconds = remaining_seconds(session.status,
                                        session.expires_at, now)]])
    /\ UNCHANGED <<now, ticks, free_remaining, paid_remaining, free0, paid0,
                   sessions, nextSid>>
    /\ UNCHANGED ledgerVars
    /\ UNCHANGED retentionVars
    /\ UNCHANGED historyVars
    /\ UNCHANGED authVars
    /\ UNCHANGED accountVars
    /\ UNCHANGED poolVars

\* status = "expired"; update_session_status(id, "expired"); 200.
GetSessionExpire(r) ==
    /\ req[r].pc = "expiring"
    /\ sessions' = update_session_status(req[r].sid, "expired")
    /\ req' = Finish(r, [req[r] EXCEPT
                 !.pc = "done", !.wrote = TRUE,
                 !.resp = [NoResp EXCEPT
                     !.code = 200, !.session_id = req[r].sid,
                     !.status = "expired",
                     !.message = "Session has expired",
                     !.session_type = req[r].seen.session_type,
                     !.seconds = remaining_seconds("expired",
                                     req[r].seen.expires_at, req[r].at)]])
    /\ UNCHANGED <<now, ticks, free_remaining, paid_remaining, free0, paid0,
                   nextSid>>
    /\ UNCHANGED ledgerVars
    /\ UNCHANGED retentionVars
    /\ UNCHANGED historyVars
    /\ UNCHANGED authVars
    /\ UNCHANGED accountVars
    /\ UNCHANGED poolVars

\* ----------------------------------------------- POST /sessions/{id}/end
\* get_session_by_id; 404 unknown; 403 not the owner; 400 already ended.
EndSessionRead(r, u, s) ==
    /\ CanStart(r)
    /\ LET session == get_session_by_id(s)
           base == [IdleReq EXCEPT !.kind = "end", !.user = u, !.sid = s,
                                   !.seen = session] IN
        req' = Finish(r,
            IF session = NoRow
            THEN [base EXCEPT !.pc = "done",
                              !.resp = Error(404, "Session not found")]
            ELSE IF NotOwner(session, u)
            THEN [base EXCEPT !.pc = "done",
                              !.resp = Error(403, "Not authorized")]
            ELSE IF AlreadyEnded(session)
            THEN [base EXCEPT !.pc = "done",
                              !.resp = Error(400, "Session already ended")]
            ELSE [base EXCEPT !.pc = "ending"])
    /\ UNCHANGED <<now, ticks, free_remaining, paid_remaining, free0, paid0,
                   sessions, nextSid>>
    /\ UNCHANGED ledgerVars
    /\ UNCHANGED retentionVars
    /\ UNCHANGED historyVars
    /\ UNCHANGED authVars
    /\ UNCHANGED accountVars
    /\ UNCHANGED poolVars

\* end_session(id): 200 with the row's status and duration_used_seconds,
\* 500 when the UPDATE returned no row.
EndSessionWrite(r) ==
    /\ req[r].pc = "ending"
    /\ sessions' = end_session(req[r].sid)
    /\ req' = Finish(r, [req[r] EXCEPT
                 !.pc = "done", !.wrote = TRUE,
                 !.resp = IF Exists(req[r].sid)
                          THEN [NoResp EXCEPT
                              !.code = 200, !.session_id = req[r].sid,
                              !.status = sessions'[req[r].sid].status,
                              !.seconds =
                                  duration_used(sessions'[req[r].sid])]
                          ELSE Error(500, "Failed to end session")])
    /\ UNCHANGED <<now, ticks, free_remaining, paid_remaining, free0, paid0,
                   nextSid>>
    /\ UNCHANGED ledgerVars
    /\ UNCHANGED retentionVars
    /\ UNCHANGED historyVars
    /\ UNCHANGED authVars
    /\ UNCHANGED accountVars
    /\ UNCHANGED poolVars

\* ------------------------------------------- POST /save_session_summary
\* A blank summary is answered 400. Otherwise the endpoint cuts the summary
\* to 2000 characters and strips it; db save_session_summary cuts it again
\* and looks the session up.
SaveSummaryLookup(r, u, key, summary) ==
    /\ CanStart(r)
    /\ CanInsert
    /\ IF MissingSummary(summary)
       THEN req' = Finish(r, [IdleReq EXCEPT
                     !.pc = "done", !.kind = "summary", !.user = u,
                     !.key = key, !.summary = summary,
                     !.resp = Error(400, "Missing summary field.")])
       ELSE \E found \in IF FoundIds(key) = {} THEN {0} ELSE FoundIds(key) :
              req' = Finish(r, [IdleReq EXCEPT
                     !.pc = "saving", !.kind = "summary", !.user = u,
                     !.key = key, !.sid = found, !.summary = summary,
                     !.text = db_truncate(strip_text(Truncate(summary)))])
    /\ UNCHANGED <<now, ticks, free_remaining, paid_remaining, free0, paid0,
                   sessions, nextSid>>
    /\ UNCHANGED ledgerVars
    /\ UNCHANGED retentionVars
    /\ UNCHANGED historyVars
    /\ UNCHANGED authVars
    /\ UNCHANGED accountVars
    /\ UNCHANGED poolVars

\* A row was found: UPDATE sessions SET summary WHERE id. None was found:
\* INSERT a new row owned by the caller. Then 200.
SaveSummaryWrite(r) ==
    /\ req[r].pc = "saving"
    /\ IF req[r].sid # 0
       THEN /\ sessions' = IF Exists(req[r].sid)
                           THEN [sessions EXCEPT
                                    ![req[r].sid].summary = req[r].text]
                           ELSE sessions
            /\ nextSid' = nextSid
            /\ req' = Finish(r, [req[r] EXCEPT
                         !.pc = "done", !.wrote = TRUE,
                         !.resp = [NoResp EXCEPT !.code = 200,
                                                 !.message = "ok"]])
       ELSE /\ sessions' = [sessions EXCEPT ![nextSid + 1] =
                               summary_row(req[r].user, req[r].key,
                                           req[r].text)]
            /\ nextSid' = nextSid + 1
            /\ req' = Finish(r, [req[r] EXCEPT
                         !.pc = "done", !.wrote = TRUE,
                         !.sid = nextSid + 1,
                         !.resp = [NoResp EXCEPT !.code = 200,
                                                 !.message = "ok"]])
    /\ UNCHANGED <<now, ticks, free_remaining, paid_remaining, free0, paid0>>
    /\ UNCHANGED ledgerVars
    /\ UNCHANGED retentionVars
    /\ UNCHANGED historyVars
    /\ UNCHANGED authVars
    /\ UNCHANGED accountVars
    /\ UNCHANGED poolVars

\* The token's subject is no UUID: one statement, INSERT ... ON CONFLICT
\* (convo_id) DO UPDATE SET summary, with the summary as the endpoint cut
\* and stripped it. Then 200. The conflict target is a unique index on
\* convo_id, under which one row at most holds the key; where more rows
\* hold it the statement raises.
SaveSummaryLegacy(r, key, summary) ==
    /\ CanStart(r)
    /\ IF MissingSummary(summary)
       THEN /\ req' = Finish(r, [IdleReq EXCEPT
                         !.pc = "done", !.kind = "legacy", !.key = key,
                         !.summary = summary,
                         !.resp = Error(400, "Missing summary field.")])
            /\ UNCHANGED <<sessions, nextSid>>
       ELSE LET text == strip_text(Truncate(summary))
                sid == IF ConflictIds(key) = {} THEN nextSid + 1
                       ELSE CHOOSE s \in ConflictIds(key) : TRUE
            IN  /\ ConflictIds(key) = {} => CanInsert
                /\ Cardinality(ConflictIds(key)) <= 1
                /\ sessions' =
                       IF ConflictIds(key) = {}
                       THEN [sessions EXCEPT ![sid] = legacy_row(key, text)]
                       ELSE [s \in SessionIds |->
                               IF s \in ConflictIds(key)
                               THEN [sessions[s] EXCEPT !.summary = text]
                               ELSE sessions[s]]
                /\ nextSid' = IF ConflictIds(key) = {} THEN nextSid + 1
                              ELSE nextSid
                /\ req' = Finish(r, [IdleReq EXCEPT
                             !.pc = "done", !.kind = "legacy", !.key = key,
                             !.sid = sid, !.summary = summary,
                             !.text = text, !.wrote = TRUE,
                             !.resp = [NoResp EXCEPT !.code = 200,
                                                     !.message = "ok"]])
    /\ UNCHANGED <<now, ticks, free_remaining, paid_remaining, free0, paid0>>
    /\ UNCHANGED ledgerVars
    /\ UNCHANGED retentionVars
    /\ UNCHANGED historyVars
    /\ UNCHANGED authVars
    /\ UNCHANGED accountVars
    /\ UNCHANGED poolVars

\* The statement raises: 500, nothing is stored.
SaveSummaryLegacyFail(r, key, summary) ==
    /\ CanStart(r)
    /\ ~MissingSummary(summary)
    /\ req' = Finish(r, [IdleReq EXCEPT
                 !.pc = "done", !.kind = "legacy", !.key = key,
                 !.summary = summary,
                 !.resp = Error(500, "Database request failed.")])
    /\ UNCHANGED <<now, ticks, free_remaining, paid_remaining, free0, paid0,
                   sessions, nextSid>>
    /\ UNCHANGED ledgerVars
    /\ UNCHANGED retentionVars
    /\ UNCHANGED historyVars
    /\ UNCHANGED authVars
    /\ UNCHANGED accountVars
    /\ UNCHANGED poolVars

\* ------------------------------------------------------------------ Next
Next ==
    \/ Tick
    \/ \E r \in Reqs, u \in Users : CreateSessionConsume(r, u)
    \/ \E r \in Reqs : CreateSessionNoCredits(r)
    \/ \E r \in Reqs : CreateSessionInsert(r)
    \/ \E r \in Reqs : CreateSessionFail(r)
    \/ \E r \in Reqs, u \in Users, s \in KnownIds : GetSessionRead(r, u, s)
    \/ \E r \in Reqs : GetSessionExpire(r)
    \/ \E r \in Reqs, u \in Users, s \in KnownIds : EndSessionRead(r, u, s)
    \/ \E r \in Reqs : EndSessionWrite(r)
    \/ \E r \in Reqs, u \in Users, key \in KnownKeys,
          summary \in SummaryLens : SaveSummaryLookup(r, u, key, summary)
    \/ \E r \in Reqs : SaveSummaryWrite(r)

Spec == Init /\ [][Next]_vars

\* The summaries alone: user 1 has spent a free credit on session 1, and
\* summaries are saved by callers with a user's token and by callers with
\* a development token.
InitSummary ==
    /\ now = 0
    /\ ticks = 0
    /\ free_remaining = [u \in Users |-> IF u = 1 THEN MaxFree - 1
                                        ELSE MaxFree]
    /\ paid_remaining = [u \in Users |-> 0]
    /\ free0 = free_remaining
    /\ paid0 = paid_remaining
    /\ sessions = [s \in SessionIds |->
                     IF s = 1 THEN create_session(1, "freemium", FreeMinutes)
                     ELSE NoRow]
    /\ nextSid = 1
    /\ req = [r \in Reqs |-> IdleReq]
    /\ entitlements = [e \in EntIds |-> NoRow]
    /\ nextEid = NumUsers
    /\ grant = [g \in Grants |-> IdleGrant]
    /\ store_history = [u \in Users |-> TRUE]
    /\ store_history_changed_at = [u \in Users |-> NULL]
    /\ history_deletion_scheduled_at = [u \in Users |-> NULL]
    /\ pref = [p \in Prefs |-> IdlePref]
    /\ sweep = IdleSweep
    /\ conversation_turns = [s \in SessionIds |-> 0]
    /\ hist = [h \in Hists |-> IdleHist]
    /\ JWT_SECRET = "key-1"
    /\ tok = [k \in Toks |-> IdleTok]
    /\ auth = [a \in Auths |-> IdleAuth]
    /\ accounts = [i \in AccountIds |-> NoRow]
    /\ nextUid = 0
    /\ nextReset = 0
    /\ acct = [a \in Accts |-> IdleAcct]
    /\ environ = TRUE
    /\ _pool = 0
    /\ pools = [p \in PoolIds |-> "none"]
    /\ poolCall = [c \in Calls |-> IdleCall]

NextSummary ==
    \/ \E r \in Reqs, u \in Users, key \in KnownKeys,
          summary \in Summaries : SaveSummaryLookup(r, u, key, summary)
    \/ \E r \in Reqs : SaveSummaryWrite(r)
    \/ \E r \in Reqs, key \in KnownKeys, summary \in Summaries :
           SaveSummaryLegacy(r, key, summary)
    \/ \E r \in Reqs, key \in KnownKeys, summary \in Summaries :
           SaveSummaryLegacyFail(r, key, summary)

SpecSummary == InitSummary /\ [][NextSummary]_vars

TypeOK ==
    /\ now \in Nat
    /\ nextSid \in 0..MaxSessions
    /\ \A u \in Users : free_remaining[u] >= 0 /\ paid_remaining[u] >= 0

\* ------------------------------------------------------ GET /users/credits
\* get_user_credits(user), then 200 with the balances.
GetUserCreditsEndpoint_consuming(r, u) ==
    /\ CanStart(r)
    /\ LET row == use_session_with_duration(u) IN
        /\ free_remaining' = [free_remaining EXCEPT ![u] = row.free]
        /\ paid_remaining' = [paid_remaining EXCEPT ![u] = row.paid]
        /\ req' = Finish(r, [IdleReq EXCEPT
                     !.pc = "done", !.kind = "credits", !.user = u,
                     !.resp = [NoResp EXCEPT
                         !.code = 200,
                         !.free_remaining = row.free,
                         !.paid_remaining = row.paid]])
    /\ UNCHANGED <<now, ticks, free0, paid0, sessions, nextSid>>
    /\ UNCHANGED ledgerVars
    /\ UNCHANGED retentionVars
    /\ UNCHANGED historyVars
    /\ UNCHANGED authVars
    /\ UNCHANGED accountVars
    /\ UNCHANGED poolVars

GetUserCreditsEndpoint(r, u) ==
    /\ CanStart(r)
    /\ LET credits == get_user_credits(u) IN
        req' = Finish(r, [IdleReq EXCEPT
                 !.pc = "done", !.kind = "credits", !.user = u,
                 !.resp = [NoResp EXCEPT
                     !.code = 200,
                     !.free_remaining = credits.free_remaining,
                     !.paid_remaining = credits.paid_remaining]])
    /\ UNCHANGED <<now, ticks, free_remaining, paid_remaining, free0, paid0,
                   sessions, nextSid>>
    /\ UNCHANGED ledgerVars
    /\ UNCHANGED retentionVars
    /\ UNCHANGED historyVars
    /\ UNCHANGED authVars
    /\ UNCHANGED accountVars
    /\ UNCHANGED poolVars

\* ------------------------------------------------------- add_paid_credits
\* With an order reference: SELECT the entitlement that carries it; when
\* there is one, return it as already processed. Otherwise go on to insert.
GrantCheck(g, u, sessions_count, order_reference) ==
    /\ CanStartGrant(g)
    /\ LET call == [IdleGrant EXCEPT !.user = u, !.count = sessions_count,
                                     !.ref = order_reference]
           existing == IF HasReference(order_reference)
                       THEN existing_entitlement(order_reference)
                       ELSE {} IN
        IF existing # {}
        THEN \E e \in existing :
                grant' = [grant EXCEPT ![g] = [call EXCEPT
                    !.pc = "done",
                    !.result = [NoGrantResult EXCEPT
                        !.entitlement_id = e,
                        !.sessions_added = 0,
                        !.already_processed = TRUE]]]
        ELSE grant' = [grant EXCEPT ![g] = [call EXCEPT !.pc = "inserting"]]
    /\ UNCHANGED <<now, ticks, free_remaining, paid_remaining, free0, paid0,
                   sessions, nextSid, req, entitlements, nextEid>>
    /\ UNCHANGED retentionVars
    /\ UNCHANGED historyVars
    /\ UNCHANGED authVars
    /\ UNCHANGED accountVars
    /\ UNCHANGED poolVars

\* INSERT INTO entitlements ... RETURNING id: the paid credits of the row
\* count for the user from here on.
GrantInsert(g) ==
    /\ grant[g].pc = "inserting"
    /\ LET e == nextEid + 1
           row == entitlement_row(grant[g].user, grant[g].count,
                                  grant[g].ref) IN
        /\ entitlements' = [entitlements EXCEPT ![e] = row]
        /\ nextEid' = e
        /\ paid_remaining' = [paid_remaining EXCEPT ![grant[g].user] =
               @ + entitlement_credits(row)]
        /\ grant' = [grant EXCEPT ![g].pc = "inserted", ![g].eid = e]
    /\ UNCHANGED <<now, ticks, free_remaining, free0, paid0,
                   sessions, nextSid, req>>
    /\ UNCHANGED retentionVars
    /\ UNCHANGED historyVars
    /\ UNCHANGED authVars
    /\ UNCHANGED accountVars
    /\ UNCHANGED poolVars

\* SELECT * FROM get_user_credits(user), then the result dict.
GrantBalance(g) ==
    /\ grant[g].pc = "inserted"
    /\ LET credits == get_user_credits(grant[g].user) IN
        grant' = [grant EXCEPT
            ![g].pc = "done",
            ![g].result = [NoGrantResult EXCEPT
                !.entitlement_id = grant[g].eid,
                !.sessions_added = grant[g].count,
                !.new_balance = credits.total_available,
                !.already_processed = FALSE]]
    /\ UNCHANGED <<now, ticks, free_remaining, paid_remaining, free0, paid0,
                   sessions, nextSid, req, entitlements, nextEid>>
    /\ UNCHANGED retentionVars
    /\ UNCHANGED historyVars
    /\ UNCHANGED authVars
    /\ UNCHANGED accountVars
    /\ UNCHANGED poolVars

\* The credit ledger on its own: grants, consumption by POST /sessions and
\* balance reads, with the clock and the other session endpoints left out.
NextLedger ==
    \/ \E r \in Reqs, u \in Users : CreateSessionConsume(r, u)
    \/ \E r \in Reqs : CreateSessionNoCredits(r)
    \/ \E r \in Reqs : CreateSessionInsert(r)
    \/ \E r \in Reqs : CreateSessionFail(r)
    \/ \E r \in Reqs, u \in Users : GetUserCreditsEndpoint(r, u)
    \/ \E g \in Grants, u \in Users, n \in GrantCounts,
           ref \in GrantRefs : GrantCheck(g, u, n, ref)
    \/ \E g \in Grants : GrantInsert(g)
    \/ \E g \in Grants : GrantBalance(g)

\* The ledger of newly registered users: the free credits, nothing bought.
InitLedger ==
    /\ Init
    /\ \A u \in Users : free_remaining[u] = MaxFree /\ paid_remaining[u] = 0

SpecLedger == InitLedger /\ [][NextLedger]_vars

\* ------------------------------------------- PATCH /users/me/preferences
\* update_user_preferences(user, store_history), then 200 with the
\* preference columns it returned.
SetPreference(p, u, value) ==
    /\ CanStartPref(p)
    /\ LET preferences == update_user_preferences(u, value) IN
        /\ store_history' =
               [store_history EXCEPT ![u] = preferences.store_history]
        /\ store_history_changed_at' =
               [store_history_changed_at EXCEPT
                   ![u] = preferences.store_history_changed_at]
        /\ history_deletion_scheduled_at' =
               [history_deletion_scheduled_at EXCEPT
                   ![u] = preferences.history_deletion_scheduled_at]
        /\ pref' = [pref EXCEPT ![p] = [IdlePref EXCEPT
               !.pc = "done", !.user = u, !.value = value, !.at = now,
               !.before = get_user_preferences(u), !.runs = sweep.run,
               !.code = 200, !.resp = PreferencesResponse(preferences)]]
    /\ UNCHANGED <<now, ticks, free_remaining, paid_remaining, free0, paid0,
                   sessions, nextSid, req, sweep>>
    /\ UNCHANGED ledgerVars
    /\ UNCHANGED historyVars
    /\ UNCHANGED authVars
    /\ UNCHANGED accountVars
    /\ UNCHANGED poolVars

\* ---------------------------------------------------- history_deletion_job
\* users = get_users_pending_deletion(limit=100); return when none is due.
SweepSelect ==
    /\ sweep.pc = "idle"
    /\ sweep.run < MaxSweeps
    /\ \E users \in get_users_pending_deletion(SweepLimit) :
         sweep' = [IdleSweep EXCEPT
                      !.pc = IF users = {} THEN "idle" ELSE "deleting",
                      !.batch = users, !.run = sweep.run + 1,
                      !.log = IF users = {}
                              THEN "No users pending history deletion"
                              ELSE NONE]
    /\ UNCHANGED <<now, ticks, free_remaining, paid_remaining, free0, paid0,
                   sessions, nextSid, req, store_history,
                   store_history_changed_at, history_deletion_scheduled_at,
                   pref>>
    /\ UNCHANGED ledgerVars
    /\ UNCHANGED historyVars
    /\ UNCHANGED authVars
    /\ UNCHANGED accountVars
    /\ UNCHANGED poolVars

\* get_users_pending_deletion raises: the outer except logs, the job ends.
SweepSelectFail ==
    /\ sweep.pc = "idle"
    /\ sweep.run < MaxSweeps
    /\ sweep' = [IdleSweep EXCEPT !.run = sweep.run + 1,
                                  !.log = "History deletion job failed"]
    /\ UNCHANGED <<now, ticks, free_remaining, paid_remaining, free0, paid0,
                   sessions, nextSid, req, store_history,
                   store_history_changed_at, history_deletion_scheduled_at,
                   pref>>
    /\ UNCHANGED ledgerVars
    /\ UNCHANGED historyVars
    /\ UNCHANGED authVars
    /\ UNCHANGED accountVars
    /\ UNCHANGED poolVars

\* The position after the iteration for a user: the next user of the batch,
\* or the end of the job with its closing log line.
SweepAfter(rest) ==
    IF rest = {} THEN "idle" ELSE "deleting"

SweepLogAfter(rest) ==
    IF rest = {} THEN "History deletion job completed" ELSE NONE

\* for user_id in users: sessions_deleted = delete_user_history(user_id)
SweepDelete ==
    /\ sweep.pc = "deleting"
    /\ \E u \in sweep.batch :
         /\ sessions' = delete_user_history(u)
         /\ conversation_turns' = cascade_conversation_turns(sessions')
         /\ sweep' = [sweep EXCEPT
                !.pc = "clearing", !.user = u, !.batch = @ \ {u},
                !.sessions_deleted = deleted_count(delete_command_tag(u))]
    /\ UNCHANGED <<now, ticks, free_remaining, paid_remaining, free0, paid0,
                   nextSid, req, store_history, store_history_changed_at,
                   history_deletion_scheduled_at, pref, hist>>
    /\ UNCHANGED ledgerVars
    /\ UNCHANGED authVars
    /\ UNCHANGED accountVars
    /\ UNCHANGED poolVars

\* delete_user_history raises: the inner except logs the error and the
\* loop goes on with the next user.
SweepDeleteFail_abort ==
    /\ sweep.pc = "deleting"
    /\ \E u \in sweep.batch :
         sweep' = [sweep EXCEPT
                !.pc = "idle", !.user = 0,
                !.errors = @ \cup {u},
                !.log = "History deletion job failed"]
    /\ UNCHANGED <<now, ticks, free_remaining, paid_remaining, free0, paid0,
                   sessions, nextSid, req, store_history,
                   store_history_changed_at, history_deletion_scheduled_at,
                   pref>>
    /\ UNCHANGED ledgerVars
    /\ UNCHANGED historyVars
    /\ UNCHANGED authVars
    /\ UNCHANGED accountVars
    /\ UNCHANGED poolVars

SweepDeleteFail_clearing ==
    /\ sweep.pc = "deleting"
    /\ \E u \in sweep.batch :
         LET rest == sweep.batch \ {u} IN
         /\ history_deletion_scheduled_at' = clear_deletion_schedule(u)
         /\ sweep' = [sweep EXCEPT
                !.pc = SweepAfter(rest), !.user = 0, !.batch = rest,
                !.errors = @ \cup {u},
                !.log = SweepLogAfter(rest)]
    /\ UNCHANGED <<now, ticks, free_remaining, paid_remaining, free0, paid0,
                   sessions, nextSid, req, store_history,
                   store_history_changed_at, pref>>
    /\ UNCHANGED ledgerVars
    /\ UNCHANGED historyVars
    /\ UNCHANGED authVars
    /\ UNCHANGED accountVars
    /\ UNCHANGED poolVars

SweepDeleteFail ==
    /\ sweep.pc = "deleting"
    /\ \E u \in sweep.batch :
         LET rest == sweep.batch \ {u} IN
         sweep' = [sweep EXCEPT
                !.pc = SweepAfter(rest), !.user = 0, !.batch = rest,
                !.errors = @ \cup {u},
                !.log = SweepLogAfter(rest)]
    /\ UNCHANGED <<now, ticks, free_remaining, paid_remaining, free0, paid0,
                   sessions, nextSid, req, store_history,
                   store_history_changed_at, history_deletion_scheduled_at,
                   pref>>
    /\ UNCHANGED ledgerVars
    /\ UNCHANGED historyVars
    /\ UNCHANGED authVars
    /\ UNCHANGED accountVars
    /\ UNCHANGED poolVars

\* clear_deletion_schedule(user_id), then the next user of the batch.
SweepClear ==
    /\ sweep.pc = "clearing"
    /\ history_deletion_scheduled_at' = clear_deletion_schedule(sweep.user)
    /\ sweep' = [sweep EXCEPT
                    !.pc = SweepAfter(sweep.batch), !.user = 0,
                    !.sessions_deleted = 0,
                    !.log = SweepLogAfter(sweep.batch)]
    /\ UNCHANGED <<now, ticks, free_remaining, paid_remaining, free0, paid0,
                   sessions, nextSid, req, store_history,
                   store_history_changed_at, pref>>
    /\ UNCHANGED ledgerVars
    /\ UNCHANGED historyVars
    /\ UNCHANGED authVars
    /\ UNCHANGED accountVars
    /\ UNCHANGED poolVars

\* clear_deletion_schedule raises: the inner except logs the error and the
\* loop goes on with the next user.
SweepClearFail ==
    /\ sweep.pc = "clearing"
    /\ sweep' = [sweep EXCEPT
                    !.pc = SweepAfter(sweep.batch), !.user = 0,
                    !.sessions_deleted = 0,
                    !.errors = @ \cup {sweep.user},
                    !.log = SweepLogAfter(sweep.batch)]
    /\ UNCHANGED <<now, ticks, free_remaining, paid_remaining, free0, paid0,
                   sessions, nextSid, req, store_history,
                   store_history_changed_at, history_deletion_scheduled_at,
                   pref>>
    /\ UNCHANGED ledgerVars
    /\ UNCHANGED historyVars
    /\ UNCHANGED authVars
    /\ UNCHANGED accountVars
    /\ UNCHANGED poolVars

\* ------------------------------------------------ GET /users/me/sessions
\* preferences = get_user_preferences(user); with the storage disabled, 200
\* with the empty listing. limit = min(int(limit), 100).
HistoryPreferences(h, u, limit, offset) ==
    /\ CanStartHist(h)
    /\ LET preferences == get_user_preferences(u)
           call == [IdleHist EXCEPT
                       !.kind = "list", !.user = u,
                       !.limit = Min(limit, 100), !.offset = offset,
                       !.preferences = preferences] IN
        hist' = [hist EXCEPT ![h] =
            IF HistoryDisabled(preferences)
            THEN [call EXCEPT !.pc = "done", !.code = 200,
                              !.resp = DisabledResponse]
            ELSE [call EXCEPT !.pc = "counting"]]
    /\ UNCHANGED <<now, ticks, free_remaining, paid_remaining, free0, paid0,
                   sessions, nextSid, req, conversation_turns>>
    /\ UNCHANGED ledgerVars
    /\ UNCHANGED retentionVars
    /\ UNCHANGED authVars
    /\ UNCHANGED accountVars
    /\ UNCHANGED poolVars

\* get_user_sessions_for_history: the count of the user's sessions.
HistoryCount(h) ==
    /\ hist[h].pc = "counting"
    /\ hist' = [hist EXCEPT ![h].pc = "listing",
                            ![h].total = history_total(hist[h].user)]
    /\ UNCHANGED <<now, ticks, free_remaining, paid_remaining, free0, paid0,
                   sessions, nextSid, req, conversation_turns>>
    /\ UNCHANGED ledgerVars
    /\ UNCHANGED retentionVars
    /\ UNCHANGED authVars
    /\ UNCHANGED accountVars
    /\ UNCHANGED poolVars

\* get_user_sessions_for_history: the page of sessions, then 200.
HistoryRows(h) ==
    /\ hist[h].pc = "listing"
    /\ \E page \in history_page(hist[h].user, hist[h].limit,
                                hist[h].offset) :
         hist' = [hist EXCEPT
             ![h].pc = "done", ![h].code = 200,
             ![h].resp = [NoHistory EXCEPT
                 !.sessions = page, !.total = hist[h].total,
                 !.has_more = has_more(hist[h].total, hist[h].limit,
                                       hist[h].offset)]]
    /\ UNCHANGED <<now, ticks, free_remaining, paid_remaining, free0, paid0,
                   sessions, nextSid, req, conversation_turns>>
    /\ UNCHANGED ledgerVars
    /\ UNCHANGED retentionVars
    /\ UNCHANGED authVars
    /\ UNCHANGED accountVars
    /\ UNCHANGED poolVars

\* ------------------------------------------ GET /sessions/{id}/messages
\* preferences = get_user_preferences(user); with the storage disabled, 404.
MessagesPreferences(h, u, s) ==
    /\ CanStartHist(h)
    /\ LET preferences == get_user_preferences(u)
           call == [IdleHist EXCEPT !.kind = "messages", !.user = u,
                                    !.sid = s,
                                    !.preferences = preferences] IN
        hist' = [hist EXCEPT ![h] =
            IF HistoryDisabled(preferences)
            THEN [call EXCEPT !.pc = "done", !.code = 404,
                              !.resp = NotFoundResponse]
            ELSE [call EXCEPT !.pc = "owner"]]
    /\ UNCHANGED <<now, ticks, free_remaining, paid_remaining, free0, paid0,
                   sessions, nextSid, req, conversation_turns>>
    /\ UNCHANGED ledgerVars
    /\ UNCHANGED retentionVars
    /\ UNCHANGED authVars
    /\ UNCHANGED accountVars
    /\ UNCHANGED poolVars

\* get_session_messages: the owner of the session; None for a session that
\* does not exist or is not the caller's, and then 404.
MessagesOwner(h) ==
    /\ hist[h].pc = "owner"
    /\ LET owner == session_owner(hist[h].sid) IN
        hist' = [hist EXCEPT ![h] =
            IF NotSessionOwner(owner, hist[h].user)
            THEN [@ EXCEPT !.pc = "done", !.owner = owner, !.code = 404,
                           !.resp = NotFoundResponse]
            ELSE [@ EXCEPT !.pc = "messages", !.owner = owner]]
    /\ UNCHANGED <<now, ticks, free_remaining, paid_remaining, free0, paid0,
                   sessions, nextSid, req, conversation_turns>>
    /\ UNCHANGED ledgerVars
    /\ UNCHANGED retentionVars
    /\ UNCHANGED authVars
    /\ UNCHANGED accountVars
    /\ UNCHANGED poolVars

\* get_session_messages: the turns of the session, then 200 with them.
MessagesRows(h) ==
    /\ hist[h].pc = "messages"
    /\ hist' = [hist EXCEPT
           ![h].pc = "done", ![h].code = 200,
           ![h].resp = [NoHistory EXCEPT
               !.session_id = hist[h].sid,
               !.messages = session_turns(hist[h].sid)]]
    /\ UNCHANGED <<now, ticks, free_remaining, paid_remaining, free0, paid0,
                   sessions, nextSid, req, conversation_turns>>
    /\ UNCHANGED ledgerVars
    /\ UNCHANGED retentionVars
    /\ UNCHANGED authVars
    /\ UNCHANGED accountVars
    /\ UNCHANGED poolVars

\* The retention policy on its own: the preference, the sweep, the clock
\* and the creation of sessions, for newly registered users who consented
\* to the storage of their history.
NextRetention ==
    \/ Tick
    \/ \E r \in Reqs, u \in Users : CreateSessionConsume(r, u)
    \/ \E r \in Reqs : CreateSessionNoCredits(r)
    \/ \E r \in Reqs : CreateSessionInsert(r)
    \/ \E r \in Reqs : CreateSessionFail(r)
    \/ \E p \in Prefs, u \in Users, value \in BOOLEAN :
           SetPreference(p, u, value)
    \/ SweepSelect
    \/ SweepSelectFail
    \/ SweepDelete
    \/ SweepDeleteFail
    \/ SweepClear
    \/ SweepClearFail

InitRetention ==
    /\ Init
    /\ \A u \in Users : free_remaining[u] = MaxFree /\ paid_remaining[u] = 0

SpecRetention == InitRetention /\ [][NextRetention]_vars

\* The stored history: users who have spent their credits, with the
\* sessions and conversation turns they have made so far.
HistoryLimits == {1, 50}
HistoryOffsets == {0}

InitHistory ==
    /\ now = 0
    /\ ticks = 0
    /\ free_remaining = [u \in Users |-> 0]
    /\ paid_remaining = [u \in Users |-> 0]
    /\ free0 = free_remaining
    /\ paid0 = paid_remaining
    /\ nextSid \in 0..MaxSessions
    /\ \E owner \in [SessionIds -> Users] :
         sessions = [s \in SessionIds |->
             IF s <= nextSid
             THEN create_session(owner[s], "freemium", FreeMinutes)
             ELSE NoRow]
    /\ conversation_turns \in [SessionIds -> 0..MaxTurns]
    /\ \A s \in SessionIds : ~Exists(s) => conversation_turns[s] = 0
    /\ req = [r \in Reqs |-> IdleReq]
    /\ entitlements = [e \in EntIds |-> NoRow]
    /\ nextEid = NumUsers
    /\ grant = [g \in Grants |-> IdleGrant]
    /\ store_history = [u \in Users |-> TRUE]
    /\ store_history_changed_at = [u \in Users |-> NULL]
    /\ history_deletion_scheduled_at = [u \in Users |-> NULL]
    /\ pref = [p \in Prefs |-> IdlePref]
    /\ sweep = IdleSweep
    /\ hist = [h \in Hists |-> IdleHist]
    /\ JWT_SECRET = "key-1"
    /\ tok = [k \in Toks |-> IdleTok]
    /\ auth = [a \in Auths |-> IdleAuth]
    /\ accounts = [i \in AccountIds |-> NoRow]
    /\ nextUid = 0
    /\ nextReset = 0
    /\ acct = [a \in Accts |-> IdleAcct]
    /\ environ = TRUE
    /\ _pool = 0
    /\ pools = [p \in PoolIds |-> "none"]
    /\ poolCall = [c \in Calls |-> IdleCall]

\* The reads of the stored history under the preference.
NextHistory ==
    \/ \E p \in Prefs, u \in Users, value \in BOOLEAN :
           SetPreference(p, u, value)
    \/ \E h \in Hists, u \in Users, limit \in HistoryLimits,
           offset \in HistoryOffsets : HistoryPreferences(h, u, limit, offset)
    \/ \E h \in Hists : HistoryCount(h)
    \/ \E h \in Hists : HistoryRows(h)
    \/ \E h \in Hists, u \in Users, s \in SessionIds :
           MessagesPreferences(h, u, s)
    \/ \E h \in Hists : MessagesOwner(h)
    \/ \E h \in Hists : MessagesRows(h)

SpecHistory == InitHistory /\ [][NextHistory]_vars

\* The purge of the stored history: the preference, the clock and
\* history_deletion_job.
NextSweep ==
    \/ Tick
    \/ \E p \in Prefs, u \in Users, value \in BOOLEAN :
           SetPreference(p, u, value)
    \/ SweepSelect
    \/ SweepSelectFail
    \/ SweepDelete
    \/ SweepDeleteFail
    \/ SweepClear
    \/ SweepClearFail

SpecSweep == InitHistory /\ [][NextSweep]_vars

\* ---------------------------------------------------------- require_auth
\* The other variables, which the token functions and require_auth leave
\* alone.
storeVars == <<free_remaining, paid_remaining, free0, paid0, sessions,
               nextSid, req>>

\* The tokens in existence: those returned to login and those sent in
\* X-New-Token.
IssuedTokens ==
    {tok[k].result.token : k \in {q \in Toks : tok[q].result.ok}}
        \cup {auth[a].response.new_token :
                a \in {q \in Auths : auth[q].response.new_token # NoToken}}

\* The extra claims a caller of create_token may pass: none, or a role.
ExtraClaims == {NONE, "admin"}

\* A token with its payload altered after signing: another subject, or a
\* later expiry.
AlteredTokens(token) ==
    {[token EXCEPT !.payload.sub = str(u)] :
        u \in {v \in Users : str(v) # token.payload.sub}}
        \cup {[token EXCEPT !.payload.exp = @ + TOKEN_EXPIRY_HOURS * 3600]}

\* The payload of a token signed with a key that is not the key of the
\* process.
ResignedTokens(token) ==
    {jwt_encode(token.payload, key) : key \in SigningKeys \ {JWT_SECRET}}

\* Payloads that lack a required claim.
PartialPayloads ==
    LET full == [sub |-> str(1), iat |-> 0,
                 exp |-> TOKEN_EXPIRY_HOURS * 3600, role |-> NONE] IN
    {[full EXCEPT !.sub = NONE], [full EXCEPT !.iat = NULL],
     [full EXCEPT !.exp = NULL]}

\* The tokens a client may present: the tokens in existence, forgeries of
\* them, tokens that lack a claim, and a token of another issuer.
PresentedTokens ==
    IssuedTokens
        \cup UNION {AlteredTokens(token) : token \in IssuedTokens}
        \cup UNION {ResignedTokens(token) : token \in IssuedTokens}
        \cup {jwt_encode(payload, key) :
                payload \in PartialPayloads, key \in SigningKeys}
        \cup {jwt_encode([sub |-> str(1), iat |-> 0,
                          exp |-> TOKEN_EXPIRY_HOURS * 3600, role |-> NONE],
                         "key-2")}

\* The Authorization headers of a request: none, another scheme, Bearer
\* with nothing after it, Bearer with a token.
Headers ==
    {NoHeader, [NoHeader EXCEPT !.scheme = "Basic "],
     [NoHeader EXCEPT !.scheme = "Bearer "]}
        \cup {[scheme |-> "Bearer ", token |-> token] :
                token \in PresentedTokens}

\* The answers of the wrapped handler.
HandlerResponses ==
    {[NoHttpResponse EXCEPT !.status_code = 200, !.body = "handled"],
     [NoHttpResponse EXCEPT !.status_code = 404, !.body = "not found"]}

\* The clock moves on by a second, to 30 minutes before the expiry of a
\* token, to a second after that, or to the expiry.
AuthInstants ==
    {now + 1} \cup
    {t \in UNION {{token.payload.exp - TOKEN_REFRESH_THRESHOLD_MINUTES * 60,
                   token.payload.exp - TOKEN_REFRESH_THRESHOLD_MINUTES * 60
                       + 1,
                   token.payload.exp} : token \in IssuedTokens} : t > now}

AuthTick ==
    /\ ticks < MaxAuthTicks
    /\ \E t \in AuthInstants : now' = t
    /\ ticks' = ticks + 1
    /\ UNCHANGED <<storeVars, authVars>>
    /\ UNCHANGED ledgerVars
    /\ UNCHANGED retentionVars
    /\ UNCHANGED historyVars
    /\ UNCHANGED accountVars
    /\ UNCHANGED poolVars

\* login: token = create_token(str(user["id"])); any caller of create_token
\* may pass extra claims.
IssueToken(k, u, extra_claims) ==
    /\ CanStartTok(k)
    /\ tok' = [tok EXCEPT ![k] =
           [pc |-> "done", user_id |-> str(u), at |-> now,
            result |-> create_token(str(u), extra_claims, now)]]
    /\ UNCHANGED <<now, ticks, storeVars, JWT_SECRET, auth>>
    /\ UNCHANGED ledgerVars
    /\ UNCHANGED retentionVars
    /\ UNCHANGED historyVars
    /\ UNCHANGED accountVars
    /\ UNCHANGED poolVars

\* The answer of the wrapper to an AuthError.
AuthErrorResponse(e) ==
    [NoHttpResponse EXCEPT !.status_code = e.status_code,
                           !.body = e.message]

\* wrapper, up to the call of the handler: the token of the header, its
\* payload as req.user, and the refreshed token when one is due.
AuthBegin(a, header) ==
    /\ CanStartAuth(a)
    /\ LET got == get_token_from_header(header)
           valid == IF got.ok THEN validate_token(got.token, now) ELSE got
           fresh == IF valid.ok
                    THEN get_refreshed_token(valid.payload, now)
                    ELSE NoAuthResult
           call == [IdleAuth EXCEPT !.header = header, !.at = now] IN
        auth' = [auth EXCEPT ![a] =
            IF ~valid.ok
            THEN [call EXCEPT !.pc = "done",
                              !.response = AuthErrorResponse(valid)]
            ELSE IF fresh.status_code # 0
            THEN [call EXCEPT !.pc = "done", !.user = valid.payload,
                              !.response = AuthErrorResponse(fresh)]
            ELSE [call EXCEPT !.pc = "handler", !.user = valid.payload,
                              !.new_token = fresh.token]]
    /\ UNCHANGED <<now, ticks, storeVars, JWT_SECRET, tok>>
    /\ UNCHANGED ledgerVars
    /\ UNCHANGED retentionVars
    /\ UNCHANGED historyVars
    /\ UNCHANGED accountVars
    /\ UNCHANGED poolVars

\* if new_token and response.status_code < 400: the same body and status
\* with the headers X-New-Token and X-Token-Expires-In.
WithNewToken_always(response, new_token) ==
    IF new_token # NoToken
    THEN [response EXCEPT
            !.new_token = new_token,
            !.expires_in = str(TOKEN_EXPIRY_HOURS * 3600)]
    ELSE response

WithNewToken(response, new_token) ==
    IF new_token # NoToken /\ response.status_code < 400
    THEN [response EXCEPT
            !.new_token = new_token,
            !.expires_in = str(TOKEN_EXPIRY_HOURS * 3600)]
    ELSE response

\* response = await func(req): the handler answers.
AuthHandler(a, response) ==
    /\ auth[a].pc = "handler"
    /\ auth' = [auth EXCEPT
           ![a].pc = "done", ![a].called = TRUE, ![a].handler = response,
           ![a].response = WithNewToken(response, auth[a].new_token)]
    /\ UNCHANGED <<now, ticks, storeVars, JWT_SECRET, tok>>
    /\ UNCHANGED ledgerVars
    /\ UNCHANGED retentionVars
    /\ UNCHANGED historyVars
    /\ UNCHANGED accountVars
    /\ UNCHANGED poolVars

\* The handler raises: except Exception -> 401 'Authentication failed'.
AuthHandlerRaise(a) ==
    /\ auth[a].pc = "handler"
    /\ auth' = [auth EXCEPT
           ![a].pc = "done", ![a].called = TRUE,
           ![a].response = [NoHttpResponse EXCEPT
               !.status_code = 401, !.body = "Authentication failed"]]
    /\ UNCHANGED <<now, ticks, storeVars, JWT_SECRET, tok>>
    /\ UNCHANGED ledgerVars
    /\ UNCHANGED retentionVars
    /\ UNCHANGED historyVars
    /\ UNCHANGED accountVars
    /\ UNCHANGED poolVars

\* Tokens on their own: a process whose signing key is set or not, the
\* create_token calls, the requests through require_auth and the clock.
InitAuth ==
    /\ now = 0
    /\ ticks = 0
    /\ free_remaining = [u \in Users |-> MaxFree]
    /\ paid_remaining = [u \in Users |-> 0]
    /\ free0 = free_remaining
    /\ paid0 = paid_remaining
    /\ sessions = [s \in SessionIds |-> NoRow]
    /\ nextSid = 0
    /\ req = [r \in Reqs |-> IdleReq]
    /\ entitlements = [e \in EntIds |-> NoRow]
    /\ nextEid = NumUsers
    /\ grant = [g \in Grants |-> IdleGrant]
    /\ store_history = [u \in Users |-> TRUE]
    /\ store_history_changed_at = [u \in Users |-> NULL]
    /\ history_deletion_scheduled_at = [u \in Users |-> NULL]
    /\ pref = [p \in Prefs |-> IdlePref]
    /\ sweep = IdleSweep
    /\ conversation_turns = [s \in SessionIds |-> 0]
    /\ hist = [h \in Hists |-> IdleHist]
    /\ JWT_SECRET \in {"", "key-1"}
    /\ tok = [k \in Toks |-> IdleTok]
    /\ auth = [a \in Auths |-> IdleAuth]
    /\ accounts = [i \in AccountIds |-> NoRow]
    /\ nextUid = 0
    /\ nextReset = 0
    /\ acct = [a \in Accts |-> IdleAcct]
    /\ environ = TRUE
    /\ _pool = 0
    /\ pools = [p \in PoolIds |-> "none"]
    /\ poolCall = [c \in Calls |-> IdleCall]

NextAuth ==
    \/ AuthTick
    \/ \E k \in Toks, u \in Users, extra_claims \in ExtraClaims :
           IssueToken(k, u, extra_claims)
    \/ \E a \in 1..MaxAuth, header \in Headers : AuthBegin(a, header)
    \/ \E a \in 1..MaxAuth, response \in HandlerResponses :
           AuthHandler(a, response)
    \/ \E a \in 1..MaxAuth : AuthHandlerRaise(a)

SpecAuth == InitAuth /\ [][NextAuth]_vars

\* uuid.UUID(req.user.get("sub")): the user whose id the subject spells.
user_uuid(sub) == CHOOSE u \in Users : str(u) = sub

\* response = await func(req), with update_user_preferences_endpoint as
\* func: update_user_preferences(user, store_history), then 200.
AuthPreference(a, value) ==
    /\ auth[a].pc = "handler"
    /\ LET u == user_uuid(auth[a].user.sub)
           preferences == update_user_preferences(u, value)
           response == [NoHttpResponse EXCEPT !.status_code = 200,
                                              !.body = "preferences"] IN
        /\ store_history' =
               [store_history EXCEPT ![u] = preferences.store_history]
        /\ store_history_changed_at' =
               [store_history_changed_at EXCEPT
                   ![u] = preferences.store_history_changed_at]
        /\ history_deletion_scheduled_at' =
               [history_deletion_scheduled_at EXCEPT
                   ![u] = preferences.history_deletion_scheduled_at]
        /\ auth' = [auth EXCEPT
               ![a].pc = "done", ![a].called = TRUE,
               ![a].handler = response,
               ![a].response = WithNewToken(response, auth[a].new_token)]
    /\ UNCHANGED <<now, ticks, storeVars, JWT_SECRET, tok, pref, sweep>>
    /\ UNCHANGED ledgerVars
    /\ UNCHANGED historyVars
    /\ UNCHANGED accountVars
    /\ UNCHANGED poolVars

\* A wrapped endpoint that writes: PATCH /users/me/preferences behind
\* require_auth, with the tokens and headers of SpecAuth.
NextGuard ==
    \/ AuthTick
    \/ \E k \in Toks, u \in Users, extra_claims \in ExtraClaims :
           IssueToken(k, u, extra_claims)
    \/ \E a \in 1..MaxAuth, header \in Headers : AuthBegin(a, header)
    \/ \E a \in 1..MaxAuth, value \in BOOLEAN : AuthPreference(a, value)

SpecGuard == InitAuth /\ [][NextGuard]_vars

\* ------------------------------------------------ a client and its token
\* The token a client holds when it makes request a: the token of login
\* for the first request, afterwards the X-New-Token of the last response
\* when that carried one, else the token it sent last.
ClientToken(a) ==
    IF a = 1 THEN tok[1].result.token
    ELSE IF auth[a - 1].response.new_token # NoToken
    THEN auth[a - 1].response.new_token
    ELSE auth[a - 1].header.token

\* A client makes request a after the answer to its last one: with the
\* token it holds, or with the token it sent last (a client that ignores
\* X-New-Token).
ClientRequest(a, header) ==
    /\ tok[1].pc = "done"
    /\ tok[1].result.ok
    /\ a > 1 => auth[a - 1].pc = "done"
    /\ header.scheme = "Bearer "
    /\ \/ header.token = ClientToken(a)
       \/ a > 1 /\ header.token = auth[a - 1].header.token
    /\ AuthBegin(a, header)

\* Between two requests the clock moves on by a second, by a second less
\* than the refresh threshold, or by the refresh threshold.
ChainInstants ==
    {now + 1, now + TOKEN_REFRESH_THRESHOLD_MINUTES * 60 - 1,
     now + TOKEN_REFRESH_THRESHOLD_MINUTES * 60}

ChainTick ==
    /\ ticks < MaxChainTicks
    /\ \E t \in ChainInstants : now' = t
    /\ ticks' = ticks + 1
    /\ UNCHANGED <<storeVars, authVars>>
    /\ UNCHANGED ledgerVars
    /\ UNCHANGED retentionVars
    /\ UNCHANGED historyVars
    /\ UNCHANGED accountVars
    /\ UNCHANGED poolVars

\* One client: a login, then requests through require_auth one after the
\* other, while the clock moves.
NextClient ==
    \/ ChainTick
    \/ \E u \in Users, extra_claims \in ExtraClaims :
           IssueToken(1, u, extra_claims)
    \/ \E a \in Auths :
           \E header \in {[scheme |-> "Bearer ", token |-> ClientToken(a)]}
                   \cup {[scheme |-> "Bearer ",
                          token |-> auth[b].header.token] :
                            b \in {a - 1} \cap Auths} :
               ClientRequest(a, header)
    \/ \E a \in Auths, response \in HandlerResponses :
           AuthHandler(a, response)

SpecClient == InitAuth /\ [][NextClient]_vars

\* -------------------------------------------------------- the users table
\* Text that the code inspects is a sequence of characters.
\* str.lower(), on the characters that the inputs are made of.
lower_char(c) ==
    CASE c = "A" -> "a" [] c = "B" -> "b" [] c = "X" -> "x"
      [] c = "Y" -> "y" [] OTHER -> c

lower(text) == [i \in 1..Len(text) |-> lower_char(text[i])]

\* str.strip(): without the blanks at both ends.
RECURSIVE strip(_)
strip(text) ==
    IF text = <<>> THEN text
    ELSE IF Head(text) = " " THEN strip(Tail(text))
    ELSE IF text[Len(text)] = " "
    THEN strip(SubSeq(text, 1, Len(text) - 1))
    ELSE text

\* c in text
Contains(text, c) == \E i \in 1..Len(text) : text[i] = c

\* The emails and passwords of the requests.
RawEmails == {<<"a", "@", "x", ".", "y">>,
              <<" ", "A", "@", "X", ".", "Y">>,
              <<"b", "@", "x">>}

RawPasswords == {<<"p", "a", "s", "s", "w", "o", "r", "d">>,
                 <<"s", "h", "o", "r", "t">>}

WpUserIds == {7}

\* hash_password: the bcrypt hash of the password; verify_password:
\* bcrypt.checkpw of a password against it.
hash_password(password) == <<"bcrypt", password>>

verify_password_any(password, password_hash) == TRUE

verify_password(password, password_hash) ==
    password_hash = hash_password(password)

\* A row of users; password_hash <<>> and wp_user_id NULL are SQL NULL.
user_row(email, password_hash, wp_user_id) ==
    [email |-> email, password_hash |-> password_hash,
     wp_user_id |-> wp_user_id, password_reset_token |-> 0,
     password_reset_expires |-> NULL, last_login |-> NULL]

\* SELECT ... FROM users WHERE email = $1: the ids of the rows.
users_by_email(email) ==
    {i \in AccountIds : accounts[i] # NoRow /\ accounts[i].email = email}

\* get_user_by_email: the id of the row, 0 for None.
get_user_by_email(email) ==
    LET found == users_by_email(lower(strip(email))) IN
    IF found = {} THEN 0 ELSE CHOOSE i \in found : TRUE

\* SELECT id, email FROM users WHERE wp_user_id = $1
users_by_wp_id(wp_user_id) ==
    {i \in AccountIds : accounts[i] # NoRow
                          /\ accounts[i].wp_user_id = wp_user_id}

\* The unique index on users.email: a statement that would leave two rows
\* with one email raises UniqueViolationError.
UniqueViolation_never(table) == FALSE

UniqueViolation(table) ==
    \E i, j \in AccountIds :
        /\ i # j /\ table[i] # NoRow /\ table[j] # NoRow
        /\ table[i].email = table[j].email

\* The parameters of create_user, and the keywords that register passes in
\* its call of create_user next to the three positional arguments.
create_user_parameters == {"email", "password", "display_name", "wp_user_id"}

register_keywords == {"store_history"}

\* The call raises TypeError when a keyword is not a parameter.
CallRaisesTypeError(keywords, parameters) == ~(keywords \subseteq parameters)

\* An account request may start when every lower slot has started.
CanStartAcct(a) ==
    /\ acct[a].pc = "idle"
    /\ \A q \in Accts : q < a => acct[q].pc # "idle"

AcctError(a, code, message) ==
    [acct EXCEPT ![a].pc = "done", ![a].code = code, ![a].message = message]

otherVars == <<now, ticks, storeVars, authVars, poolVars>>

\* ---------------------------------------------------- POST /auth/register
\* email = strip().lower(); the validations; get_user_by_email -> 409.
RegisterCheck(a, raw_email, password) ==
    /\ CanStartAcct(a)
    /\ LET email == lower(strip(raw_email))
           call == [acct EXCEPT ![a].kind = "register", ![a].email = email,
                                ![a].password = password]
           existing_user == get_user_by_email(email) IN
        acct' =
          IF email = <<>>
          THEN [call EXCEPT ![a].pc = "done", ![a].code = 400,
                            ![a].message = "Email is required"]
          ELSE IF ~Contains(email, "@") \/ ~Contains(email, ".")
          THEN [call EXCEPT ![a].pc = "done", ![a].code = 400,
                            ![a].message = "Invalid email format"]
          ELSE IF Len(password) < 8
          THEN [call EXCEPT ![a].pc = "done", ![a].code = 400,
                   ![a].message = "Password must be at least 8 characters"]
          ELSE IF existing_user # 0
          THEN [call EXCEPT ![a].pc = "done", ![a].code = 409,
                            ![a].user = existing_user,
                            ![a].message = "Email already registered"]
          ELSE [call EXCEPT ![a].pc = "creating"]
    /\ UNCHANGED <<accounts, nextUid, nextReset>>
    /\ UNCHANGED otherVars
    /\ UNCHANGED ledgerVars
    /\ UNCHANGED retentionVars
    /\ UNCHANGED historyVars

\* user = await create_user(email, password, display_name,
\* store_history=...): TypeError for the keyword, caught by except
\* Exception -> 500; otherwise the INSERT, whose UniqueViolationError is
\* answered 409, and 201 with the id of the new user.
RegisterCreate(a) ==
    /\ acct[a].pc = "creating"
    /\ LET i == nextUid + 1
           taken == users_by_email(acct[a].email) # {}
           row == user_row(lower(strip(acct[a].email)),
                           hash_password(acct[a].password), NULL)
           table == IF i \in AccountIds
                    THEN [accounts EXCEPT ![i] = row] ELSE accounts
           seen == [acct EXCEPT ![a].taken = taken] IN
        IF CallRaisesTypeError(register_keywords, create_user_parameters)
        THEN /\ acct' = [seen EXCEPT ![a].pc = "done", ![a].code = 500,
                                    ![a].message = "Registration failed"]
             /\ UNCHANGED <<accounts, nextUid>>
        ELSE IF UniqueViolation(table)
        THEN /\ acct' = [seen EXCEPT ![a].pc = "done", ![a].code = 409,
                            ![a].message = "Email already registered"]
             /\ UNCHANGED <<accounts, nextUid>>
        ELSE /\ i \in AccountIds
             /\ accounts' = table
             /\ nextUid' = i
             /\ acct' = [seen EXCEPT ![a].pc = "done", ![a].code = 201,
                            ![a].user = i, ![a].user_id = str(i),
                            ![a].message = "Registration successful"]
    /\ UNCHANGED nextReset
    /\ UNCHANGED otherVars
    /\ UNCHANGED ledgerVars
    /\ UNCHANGED retentionVars
    /\ UNCHANGED historyVars

\* ------------------------------------------------------- POST /auth/login
\* get_user_by_email, then the password against the hash: 401 for no user,
\* no hash or a wrong password.
LoginRead(a, raw_email, password) ==
    /\ CanStartAcct(a)
    /\ LET email == lower(strip(raw_email))
           call == [acct EXCEPT ![a].kind = "login", ![a].email = email,
                                ![a].password = password]
           user == get_user_by_email(email) IN
        acct' =
          IF email = <<>> \/ password = <<>>
          THEN [call EXCEPT ![a].pc = "done", ![a].code = 400,
                   ![a].message = "Email and password are required"]
          ELSE IF user = 0
          THEN [call EXCEPT ![a].pc = "done", ![a].code = 401,
                            ![a].message = "Invalid email or password"]
          ELSE IF \/ accounts[user].password_hash = <<>>
                  \/ ~verify_password(password,
                                      accounts[user].password_hash)
          THEN [call EXCEPT ![a].pc = "done", ![a].code = 401,
                            ![a].message = "Invalid email or password"]
          ELSE [call EXCEPT ![a].pc = "verified", ![a].user = user]
    /\ UNCHANGED <<accounts, nextUid, nextReset>>
    /\ UNCHANGED otherVars
    /\ UNCHANGED ledgerVars
    /\ UNCHANGED retentionVars
    /\ UNCHANGED historyVars

\* update_last_login(user["id"]); token = create_token(str(user["id"]));
\* 200 with the token, or 500 when create_token raises.
LoginFinish(a) ==
    /\ acct[a].pc = "verified"
    /\ LET user == acct[a].user
           created == create_token(str(user), NONE, now) IN
        /\ accounts' = [accounts EXCEPT ![user].last_login = now]
        /\ acct' =
             IF created.ok
             THEN [acct EXCEPT ![a].pc = "done", ![a].code = 200,
                               ![a].user_id = str(user),
                               ![a].token = created.token]
             ELSE [acct EXCEPT ![a].pc = "done", ![a].code = 500,
                               ![a].message = "Login failed"]
    /\ UNCHANGED <<nextUid, nextReset>>
    /\ UNCHANGED otherVars
    /\ UNCHANGED ledgerVars
    /\ UNCHANGED retentionVars
    /\ UNCHANGED historyVars

\* --------------------------------------------- POST /auth/forgot-password
\* set_password_reset_token: UPDATE users SET password_reset_token = $1,
\* password_reset_expires = NOW() + 1 hour WHERE email = $3 -- the table
\* after the statement.
set_password_reset_token(email, token, expires_hours) ==
    [i \in AccountIds |->
        IF i \in users_by_email(lower(strip(email)))
        THEN [accounts[i] EXCEPT
                 !.password_reset_token = token,
                 !.password_reset_expires = now + expires_hours * 3600]
        ELSE accounts[i]]

\* The answer of forgot_password to a request with a valid email.
ForgotPasswordResponse_revealing(user_exists) ==
    IF user_exists
    THEN [code |-> 200,
          message |-> "If the email exists, a reset link will be sent"]
    ELSE [code |-> 404, message |-> "User not found"]

ForgotPasswordResponse(user_exists) ==
    [code |-> 200,
     message |-> "If the email exists, a reset link will be sent"]

\* email = strip().lower(); 400 without an "@"; a fresh reset token;
\* set_password_reset_token; 200.
ForgotPassword(a, raw_email) ==
    /\ CanStartAcct(a)
    /\ LET email == lower(strip(raw_email))
           reset_token == nextReset + 1
           call == [acct EXCEPT ![a].kind = "forgot", ![a].email = email,
                                ![a].reset_token = reset_token,
                                ![a].at = now]
           user_exists == users_by_email(email) # {}
           response == ForgotPasswordResponse(user_exists) IN
        IF email = <<>> \/ ~Contains(email, "@")
        THEN /\ acct' = [call EXCEPT ![a].pc = "done", ![a].code = 400,
                            ![a].message = "Valid email is required"]
             /\ UNCHANGED <<accounts, nextReset>>
        ELSE /\ accounts' = set_password_reset_token(email, reset_token, 1)
             /\ nextReset' = reset_token
             /\ acct' = [call EXCEPT ![a].pc = "done",
                            ![a].taken = user_exists,
                            ![a].code = response.code,
                            ![a].message = response.message]
    /\ UNCHANGED nextUid
    /\ UNCHANGED otherVars
    /\ UNCHANGED ledgerVars
    /\ UNCHANGED retentionVars
    /\ UNCHANGED historyVars

\* ------------------------------------------- POST /internal/sync-user
\* email = strip(), 400 without an "@"; sync_wordpress_user: email =
\* lower().strip(); SELECT by wp_user_id.
SyncByWp(a, wp_user_id, raw_email) ==
    /\ CanStartAcct(a)
    /\ LET email == lower(strip(strip(raw_email)))
           call == [acct EXCEPT ![a].kind = "sync", ![a].email = email,
                                ![a].wp_user_id = wp_user_id]
           existing_by_wp == users_by_wp_id(wp_user_id) IN
        IF strip(raw_email) = <<>> \/ ~Contains(strip(raw_email), "@")
        THEN acct' = [call EXCEPT ![a].pc = "done", ![a].code = 400,
                         ![a].message = "Valid email is required"]
        ELSE IF existing_by_wp # {}
        THEN \E i \in existing_by_wp :
                acct' = [call EXCEPT ![a].pc = "updating", ![a].user = i]
        ELSE acct' = [call EXCEPT ![a].pc = "by_email"]
    /\ UNCHANGED <<accounts, nextUid, nextReset>>
    /\ UNCHANGED otherVars
    /\ UNCHANGED ledgerVars
    /\ UNCHANGED retentionVars
    /\ UNCHANGED historyVars

\* UPDATE users SET email = $1 WHERE wp_user_id = $3, and "updated"; the
\* endpoint answers 500 'Sync failed' when the statement raises.
SyncUpdate(a) ==
    /\ acct[a].pc = "updating"
    /\ LET table == [i \in AccountIds |->
                       IF i \in users_by_wp_id(acct[a].wp_user_id)
                       THEN [accounts[i] EXCEPT !.email = acct[a].email]
                       ELSE accounts[i]] IN
        IF UniqueViolation(table)
        THEN /\ acct' = AcctError(a, 500, "Sync failed")
             /\ UNCHANGED accounts
        ELSE /\ accounts' = table
             /\ acct' = [acct EXCEPT ![a].pc = "done", ![a].code = 200,
                            ![a].user_id = str(acct[a].user),
                            ![a].sync_status = "updated"]
    /\ UNCHANGED <<nextUid, nextReset>>
    /\ UNCHANGED otherVars
    /\ UNCHANGED ledgerVars
    /\ UNCHANGED retentionVars
    /\ UNCHANGED historyVars

\* SELECT id FROM users WHERE email = $1
SyncByEmail(a) ==
    /\ acct[a].pc = "by_email"
    /\ LET existing_by_email == users_by_email(acct[a].email) IN
        IF existing_by_email # {}
        THEN \E i \in existing_by_email :
                acct' = [acct EXCEPT ![a].pc = "linking", ![a].user = i]
        ELSE acct' = [acct EXCEPT ![a].pc = "inserting"]
    /\ UNCHANGED <<accounts, nextUid, nextReset>>
    /\ UNCHANGED otherVars
    /\ UNCHANGED ledgerVars
    /\ UNCHANGED retentionVars
    /\ UNCHANGED historyVars

\* UPDATE users SET wp_user_id = $1 WHERE email = $3, and "linked".
SyncLink(a) ==
    /\ acct[a].pc = "linking"
    /\ accounts' = [i \in AccountIds |->
           IF i \in users_by_email(acct[a].email)
           THEN [accounts[i] EXCEPT !.wp_user_id = acct[a].wp_user_id]
           ELSE accounts[i]]
    /\ acct' = [acct EXCEPT ![a].pc = "done", ![a].code = 200,
                   ![a].user_id = str(acct[a].user),
                   ![a].sync_status = "linked"]
    /\ UNCHANGED <<nextUid, nextReset>>
    /\ UNCHANGED otherVars
    /\ UNCHANGED ledgerVars
    /\ UNCHANGED retentionVars
    /\ UNCHANGED historyVars

\* INSERT INTO users (id, email, display_name, wp_user_id, created_at): a
\* user without password, and "created"; 500 when the statement raises.
SyncInsert(a) ==
    /\ acct[a].pc = "inserting"
    /\ nextUid < MaxAccounts
    /\ LET i == nextUid + 1
           row == user_row(acct[a].email, <<>>, acct[a].wp_user_id)
           table == [accounts EXCEPT ![i] = row] IN
        IF UniqueViolation(table)
        THEN /\ acct' = AcctError(a, 500, "Sync failed")
             /\ UNCHANGED <<accounts, nextUid>>
        ELSE /\ accounts' = table
             /\ nextUid' = i
             /\ acct' = [acct EXCEPT ![a].pc = "done", ![a].code = 200,
                            ![a].user = i, ![a].user_id = str(i),
                            ![a].sync_status = "created"]
    /\ UNCHANGED nextReset
    /\ UNCHANGED otherVars
    /\ UNCHANGED ledgerVars
    /\ UNCHANGED retentionVars
    /\ UNCHANGED historyVars

\* The accounts on their own: a users table that is empty or holds one
\* user with a password, and the register, login, forgot-password and
\* sync-user requests.
InitAccounts ==
    /\ now = 0
    /\ ticks = 0
    /\ free_remaining = [u \in Users |-> MaxFree]
    /\ paid_remaining = [u \in Users |-> 0]
    /\ free0 = free_remaining
    /\ paid0 = paid_remaining
    /\ sessions = [s \in SessionIds |-> NoRow]
    /\ nextSid = 0
    /\ req = [r \in Reqs |-> IdleReq]
    /\ entitlements = [e \in EntIds |-> NoRow]
    /\ nextEid = NumUsers
    /\ grant = [g \in Grants |-> IdleGrant]
    /\ store_history = [u \in Users |-> TRUE]
    /\ store_history_changed_at = [u \in Users |-> NULL]
    /\ history_deletion_scheduled_at = [u \in Users |-> NULL]
    /\ pref = [p \in Prefs |-> IdlePref]
    /\ sweep = IdleSweep
    /\ conversation_turns = [s \in SessionIds |-> 0]
    /\ hist = [h \in Hists |-> IdleHist]
    /\ JWT_SECRET = "key-1"
    /\ tok = [k \in Toks |-> IdleTok]
    /\ auth = [a \in Auths |-> IdleAuth]
    /\ nextUid \in {0, 1}
    /\ accounts = [i \in AccountIds |->
           IF i <= nextUid
           THEN user_row(<<"a", "@", "x", ".", "y">>,
                         hash_password(<<"p", "a", "s", "s", "w", "o", "r",
                                         "d">>), NULL)
           ELSE NoRow]
    /\ nextReset = 0
    /\ acct = [a \in Accts |-> IdleAcct]
    /\ environ = TRUE
    /\ _pool = 0
    /\ pools = [p \in PoolIds |-> "none"]
    /\ poolCall = [c \in Calls |-> IdleCall]

NextAccounts ==
    \/ \E a \in Accts, raw_email \in RawEmails, password \in RawPasswords :
           RegisterCheck(a, raw_email, password)
    \/ \E a \in Accts : RegisterCreate(a)
    \/ \E a \in Accts, raw_email \in RawEmails, password \in RawPasswords :
           LoginRead(a, raw_email, password)
    \/ \E a \in Accts : LoginFinish(a)
    \/ \E a \in Accts, raw_email \in RawEmails : ForgotPassword(a, raw_email)
    \/ \E a \in Accts, wp_user_id \in WpUserIds, raw_email \in RawEmails :
           SyncByWp(a, wp_user_id, raw_email)
    \/ \E a \in Accts : SyncUpdate(a)
    \/ \E a \in Accts : SyncByEmail(a)
    \/ \E a \in Accts : SyncLink(a)
    \/ \E a \in Accts : SyncInsert(a)

SpecAccounts == InitAccounts /\ [][NextAccounts]_vars

\* ---------------------------------------------- POST /auth/reset-password
\* get_user_by_reset_token: SELECT id FROM users WHERE password_reset_token
\* = $1 AND password_reset_expires > NOW() -- the id of the row, 0 for None.
get_user_by_reset_token(token) ==
    LET found == {i \in AccountIds :
                     /\ accounts[i] # NoRow
                     /\ accounts[i].password_reset_token = token
                     /\ accounts[i].password_reset_expires > now} IN
    IF found = {} THEN 0 ELSE CHOOSE i \in found : TRUE

\* update_user_password: UPDATE users SET password_hash = $1,
\* password_reset_token = NULL, password_reset_expires = NULL WHERE id = $2
\* -- the table after the statement.
update_user_password_keeping(user_id, new_password) ==
    [accounts EXCEPT ![user_id].password_hash = hash_password(new_password)]

update_user_password(user_id, new_password) ==
    [accounts EXCEPT
        ![user_id].password_hash = hash_password(new_password),
        ![user_id].password_reset_token = 0,
        ![user_id].password_reset_expires = NULL]

\* The reset tokens of the requests: none, those handed out, and one more.
ResetTokens == 0..(nextReset + 1)

\* token = strip(); 400 without a token or with a password of fewer than 8
\* characters; get_user_by_reset_token -> 400 when there is no such user.
ResetLookup(a, token, password) ==
    /\ CanStartAcct(a)
    /\ LET call == [acct EXCEPT ![a].kind = "reset",
                                ![a].reset_token = token,
                                ![a].password = password, ![a].at = now]
           user == get_user_by_reset_token(token) IN
        acct' =
          IF token = 0
          THEN [call EXCEPT ![a].pc = "done", ![a].code = 400,
                            ![a].message = "Reset token is required"]
          ELSE IF Len(password) < 8
          THEN [call EXCEPT ![a].pc = "done", ![a].code = 400,
                   ![a].message = "Password must be at least 8 characters"]
          ELSE IF user = 0
          THEN [call EXCEPT ![a].pc = "done", ![a].code = 400,
                            ![a].message = "Invalid or expired reset token"]
          ELSE [call EXCEPT ![a].pc = "resetting", ![a].user = user]
    /\ UNCHANGED <<accounts, nextUid, nextReset>>
    /\ UNCHANGED otherVars
    /\ UNCHANGED ledgerVars
    /\ UNCHANGED retentionVars
    /\ UNCHANGED historyVars

\* update_user_password(user["id"], password); 200.
ResetWrite(a) ==
    /\ acct[a].pc = "resetting"
    /\ accounts' = update_user_password(acct[a].user, acct[a].password)
    /\ acct' = [acct EXCEPT ![a].pc = "done", ![a].code = 200,
                            ![a].message = "Password reset successfully"]
    /\ UNCHANGED <<nextUid, nextReset>>
    /\ UNCHANGED otherVars
    /\ UNCHANGED ledgerVars
    /\ UNCHANGED retentionVars
    /\ UNCHANGED historyVars

\* The clock moves on by a second or to the expiry of a reset token.
ResetInstants ==
    {now + 1} \cup {accounts[i].password_reset_expires :
                       i \in {j \in AccountIds :
                                /\ accounts[j] # NoRow
                                /\ accounts[j].password_reset_expires > now}}

ResetTick ==
    /\ ticks < MaxResetTicks
    /\ \E t \in ResetInstants : now' = t
    /\ ticks' = ticks + 1
    /\ UNCHANGED <<storeVars, authVars, poolVars>>
    /\ UNCHANGED accountVars
    /\ UNCHANGED ledgerVars
    /\ UNCHANGED retentionVars
    /\ UNCHANGED historyVars

\* Forgot-password and reset-password next to the clock, over the users
\* table of SpecAccounts.
NextReset ==
    \/ ResetTick
    \/ \E a \in Accts, raw_email \in RawEmails : ForgotPassword(a, raw_email)
    \/ \E a \in Accts, token \in ResetTokens, password \in RawPasswords :
           ResetLookup(a, token, password)
    \/ \E a \in Accts : ResetWrite(a)

SpecReset == InitAccounts /\ [][NextReset]_vars

\* ------------------------------------------------- src/db/postgres.py
\* The calls run as coroutines of one event loop: a call runs alone from
\* one await to the next. Call slots are used once and in index order.
CanStartCall(c) ==
    /\ poolCall[c].pc = "idle"
    /\ \A q \in Calls : q < c => poolCall[q].pc # "idle"

\* Pools still to come: creations that started calls may yet make.
Created == Cardinality({p \in PoolIds : pools[p] # "none"})
Creating == Cardinality({c \in Calls : poolCall[c].pc = "creating"})

\* get_pool up to its await: the pool when there is one; ValueError when
\* the environment lacks host or password; else asyncpg.create_pool begins.
GetPoolCheck(c) ==
    /\ CanStartCall(c)
    /\ (_pool = 0 /\ environ) => Created + Creating < MaxPools
    /\ poolCall' = [poolCall EXCEPT ![c] =
         IF _pool # 0
         THEN [IdleCall EXCEPT !.pc = "done", !.kind = "get",
                               !.pool = _pool]
         ELSE IF ~environ
         THEN [IdleCall EXCEPT !.pc = "done", !.kind = "get",
                               !.raised = "ValueError"]
         ELSE [IdleCall EXCEPT !.pc = "creating", !.kind = "get"]]
    /\ UNCHANGED <<environ, _pool, pools>>
    /\ UNCHANGED <<now, ticks, storeVars>>
    /\ UNCHANGED ledgerVars
    /\ UNCHANGED retentionVars
    /\ UNCHANGED historyVars
    /\ UNCHANGED authVars
    /\ UNCHANGED accountVars

\* asyncpg.create_pool returned a new pool: _pool = it; return _pool.
GetPoolCreate(c) ==
    /\ poolCall[c].pc = "creating"
    /\ LET p == Created + 1 IN
        /\ _pool' = p
        /\ pools' = [pools EXCEPT ![p] = "open"]
        /\ poolCall' = [poolCall EXCEPT ![c].pc = "done", ![c].pool = p]
    /\ UNCHANGED environ
    /\ UNCHANGED <<now, ticks, storeVars>>
    /\ UNCHANGED ledgerVars
    /\ UNCHANGED retentionVars
    /\ UNCHANGED historyVars
    /\ UNCHANGED authVars
    /\ UNCHANGED accountVars

\* asyncpg.create_pool raised: the error goes to the caller.
GetPoolCreateFail(c) ==
    /\ poolCall[c].pc = "creating"
    /\ poolCall' = [poolCall EXCEPT ![c].pc = "done",
                            ![c].raised = "PostgresError"]
    /\ UNCHANGED <<environ, _pool, pools>>
    /\ UNCHANGED <<now, ticks, storeVars>>
    /\ UNCHANGED ledgerVars
    /\ UNCHANGED retentionVars
    /\ UNCHANGED historyVars
    /\ UNCHANGED authVars
    /\ UNCHANGED accountVars

\* close_pool up to its await: nothing to do without a pool; else
\* _pool.close() begins on the pool that _pool names now.
ClosePoolCheck(c) ==
    /\ CanStartCall(c)
    /\ poolCall' = [poolCall EXCEPT ![c] =
         IF _pool = 0
         THEN [IdleCall EXCEPT !.pc = "done", !.kind = "close"]
         ELSE [IdleCall EXCEPT !.pc = "closing", !.kind = "close",
                               !.pool = _pool]]
    /\ UNCHANGED <<environ, _pool, pools>>
    /\ UNCHANGED <<now, ticks, storeVars>>
    /\ UNCHANGED ledgerVars
    /\ UNCHANGED retentionVars
    /\ UNCHANGED historyVars
    /\ UNCHANGED authVars
    /\ UNCHANGED accountVars

\* The pool is closed: _pool = None.
ClosePoolReset(c) ==
    /\ poolCall[c].pc = "closing"
    /\ pools' = [pools EXCEPT ![poolCall[c].pool] = "closed"]
    /\ _pool' = 0
    /\ poolCall' = [poolCall EXCEPT ![c].pc = "done"]
    /\ UNCHANGED environ
    /\ UNCHANGED <<now, ticks, storeVars>>
    /\ UNCHANGED ledgerVars
    /\ UNCHANGED retentionVars
    /\ UNCHANGED historyVars
    /\ UNCHANGED authVars
    /\ UNCHANGED accountVars

InitPool ==
    /\ now = 0
    /\ ticks = 0
    /\ free_remaining = [u \in Users |-> MaxFree]
    /\ paid_remaining = [u \in Users |-> 0]
    /\ free0 = free_remaining
    /\ paid0 = paid_remaining
    /\ sessions = [s \in SessionIds |-> NoRow]
    /\ nextSid = 0
    /\ req = [r \in Reqs |-> IdleReq]
    /\ entitlements = [e \in EntIds |-> NoRow]
    /\ nextEid = NumUsers
    /\ grant = [g \in Grants |-> IdleGrant]
    /\ store_history = [u \in Users |-> TRUE]
    /\ store_history_changed_at = [u \in Users |-> NULL]
    /\ history_deletion_scheduled_at = [u \in Users |-> NULL]
    /\ pref = [p \in Prefs |-> IdlePref]
    /\ sweep = IdleSweep
    /\ conversation_turns = [s \in SessionIds |-> 0]
    /\ hist = [h \in Hists |-> IdleHist]
    /\ JWT_SECRET = "key-1"
    /\ tok = [k \in Toks |-> IdleTok]
    /\ auth = [a \in Auths |-> IdleAuth]
    /\ accounts = [i \in AccountIds |-> NoRow]
    /\ nextUid = 0
    /\ nextReset = 0
    /\ acct = [a \in Accts |-> IdleAcct]
    /\ environ \in BOOLEAN
    /\ _pool = 0
    /\ pools = [p \in PoolIds |-> "none"]
    /\ poolCall = [c \in Calls |-> IdleCall]

NextPool ==
    \/ \E c \in Calls : GetPoolCheck(c)
    \/ \E c \in Calls : GetPoolCreate(c)
    \/ \E c \in Calls : GetPoolCreateFail(c)
    \/ \E c \in Calls : ClosePoolCheck(c)
    \/ \E c \in Calls : ClosePoolReset(c)

SpecPool == InitPool /\ [][NextPool]_vars

\* ================================================================ claims
Done(r) == req[r].pc = "done"
Creates(u) == {r \in Reqs : req[r].kind = "create" /\ req[r].user = u}
Successes(u) == {r \in Creates(u) : req[r].credit.success}
Balance(u) == free_remaining[u] + paid_remaining[u]
RowsOf(u) == {s \in SessionIds : Exists(s) /\ sessions[s].user_id = u}
TimedRowsOf(u) == {s \in RowsOf(u) : sessions[s].expires_at # NULL}

\* C1: for a user who starts with exactly one credit, consume calls that
\* run concurrently yield exactly one success: at most one call ever
\* succeeds, each success is paid for by the balance (none lost, never
\* negative), after the first call the balance is 0, every call that did
\* not succeed is answered 402 and only a successful one is answered 201.
C1_ExactlyOneSuccess ==
    \A u \in Users : free0[u] + paid0[u] = 1 =>
        /\ Cardinality(Successes(u)) <= 1
        /\ free_remaining[u] >= 0 /\ paid_remaining[u] >= 0
        /\ Balance(u) + Cardinality(Successes(u)) = 1
        /\ Creates(u) # {} =>
               Cardinality(Successes(u)) = 1 /\ Balance(u) = 0
        /\ \A r \in Creates(u) : Done(r) =>
               /\ r \notin Successes(u) => req[r].resp.code = 402
               /\ req[r].resp.code = 201 => r \in Successes(u)

\* Two consume calls of a one-credit user in flight at once, one of them
\* the success.
C1_Witness ==
    \E u \in Users, r1, r2 \in Reqs :
        /\ free0[u] + paid0[u] = 1
        /\ r1 # r2 /\ req[r1].pc = "consumed" /\ req[r2].pc = "consumed"
        /\ req[r1].user = u /\ req[r2].user = u
        /\ req[r1].credit.success /\ ~req[r2].credit.success

\* C2: a user who starts with N free and M paid credits: the k-th consume
\* call succeeds as a freemium session of 5 minutes for k <= N, as a paid
\* session of 45 minutes for N < k <= N+M, and fails with 402 NO_CREDITS
\* for k > N+M; the session a successful call creates has that type and
\* that duration.
C2_FreeThenPaid ==
    \A u \in Users : \A r \in Creates(u) :
        LET k == Cardinality({q \in Creates(u) : q <= r})
            c == req[r].credit
        IN  /\ k <= free0[u] =>
                 c.success /\ c.session_type = "freemium"
                           /\ c.duration_minutes = FreeMinutes
            /\ (free0[u] < k /\ k <= free0[u] + paid0[u]) =>
                 c.success /\ c.session_type = "paid"
                           /\ c.duration_minutes = PaidMinutes
            /\ k > free0[u] + paid0[u] =>
                 /\ ~c.success
                 /\ Done(r) => /\ req[r].resp.code = 402
                               /\ req[r].resp.error = "NO_CREDITS"
            /\ (Done(r) /\ req[r].resp.code = 201) =>
                 /\ c.success
                 /\ req[r].resp.session_type = c.session_type
                 /\ req[r].resp.duration_minutes = c.duration_minutes
                 /\ Exists(req[r].sid) =>
                      LET row == sessions[req[r].sid] IN
                      /\ row.session_type = c.session_type
                      /\ row.duration_minutes = c.duration_minutes
                      /\ row.expires_at - row.created_at
                             = c.duration_minutes * 60

\* One free and one paid credit, three calls answered: 201, 201, 402.
C2_Witness ==
    \E u \in Users :
        /\ free0[u] = 1 /\ paid0[u] = 1
        /\ Cardinality({r \in Creates(u) : req[r].resp.code = 201}) = 2
        /\ \E r \in Creates(u) : req[r].resp.code = 402

\* C3: a consume call of a user without credit of either kind fails and
\* changes no balance and no session; the request is then answered 402
\* NO_CREDITS with the user's balances of that moment, and again changes
\* no balance and creates no session.
C3_NoCredits ==
    [][\A r \in Reqs :
        LET u == req'[r].user IN
        /\ (/\ req[r].pc = "idle" /\ req'[r].kind = "create"
            /\ free_remaining[u] = 0 /\ paid_remaining[u] = 0) =>
               /\ ~req'[r].credit.success
               /\ req'[r].pc = "consumed"
               /\ free_remaining' = free_remaining
               /\ paid_remaining' = paid_remaining
               /\ sessions' = sessions
        /\ (/\ req[r].pc = "consumed" /\ ~req[r].credit.success
            /\ req'[r] # req[r]) =>
               /\ req'[r].pc = "done"
               /\ req'[r].resp.code = 402
               /\ req'[r].resp.error = "NO_CREDITS"
               /\ req'[r].resp.free_remaining = free_remaining[u]
               /\ req'[r].resp.paid_remaining = paid_remaining[u]
               /\ req'[r].sid = 0
               /\ free_remaining' = free_remaining
               /\ paid_remaining' = paid_remaining
               /\ sessions' = sessions
      ]_vars

\* A user without credits was answered 402 with balances 0 and 0.
C3_Witness ==
    \E r \in Reqs :
        /\ req[r].kind = "create" /\ Done(r)
        /\ free0[req[r].user] = 0 /\ paid0[req[r].user] = 0
        /\ req[r].resp.code = 402
        /\ req[r].resp.free_remaining = 0 /\ req[r].resp.paid_remaining = 0

C5_TerminalStatuses ==
    [][\A s \in SessionIds :
        (Exists(s) /\ sessions[s].status \in {"expired", "ended"}) =>
            sessions'[s].status = sessions[s].status]_vars

\* C6: a get by the owner that reads stored status active with
\* now >= expires_at goes on to write expired, that write leaves the
\* stored status expired and the get answers 200 expired; a get by the
\* owner that reads stored status expired answers 200 expired with no
\* time remaining and writes nothing.
C6_ExpireOnGet ==
    [][\A r \in Reqs :
        /\ (/\ req[r].pc = "idle" /\ req'[r].kind = "get"
            /\ Exists(req'[r].sid)
            /\ sessions[req'[r].sid].user_id = req'[r].user) =>
               LET row == sessions[req'[r].sid] IN
               /\ (/\ row.status = "active" /\ row.expires_at # NULL
                   /\ now >= row.expires_at) => req'[r].pc = "expiring"
               /\ row.status = "expired" =>
                     /\ req'[r].pc = "done"
                     /\ req'[r].resp.code = 200
                     /\ req'[r].resp.status = "expired"
                     /\ req'[r].resp.seconds = 0
                     /\ sessions' = sessions
        /\ (req[r].pc = "expiring" /\ req'[r] # req[r]) =>
               /\ Exists(req[r].sid) =>
                     sessions'[req[r].sid].status = "expired"
               /\ req'[r].pc = "done"
               /\ req'[r].resp.code = 200
               /\ req'[r].resp.status = "expired"
               /\ req'[r].resp.seconds = 0
      ]_vars

\* A get wrote expired and a later get of the same session read expired
\* and answered expired.
C6_Witness ==
    \E r1, r2 \in Reqs :
        /\ r1 < r2 /\ Done(r1) /\ Done(r2)
        /\ req[r1].kind = "get" /\ req[r2].kind = "get"
        /\ req[r1].sid = req[r2].sid
        /\ req[r1].wrote
        /\ req[r2].seen # NoRow /\ req[r2].seen.status = "expired"
        /\ req[r2].resp.status = "expired"
        /\ sessions[req[r1].sid].status = "expired"

\* No end request has written the session.
NoEndOn(s) ==
    \A q \in Reqs : ~(req[q].kind = "end" /\ req[q].sid = s /\ req[q].wrote)

\* C7: every finished get by the owner that read the session active past
\* its expiry, however it interleaved with other such gets, answered 200
\* expired after writing the status, and the stored status is expired as
\* long as no end request has written the session.
C7_ConcurrentGets ==
    \A r \in Reqs :
        (/\ req[r].kind = "get" /\ Done(r)
         /\ req[r].seen # NoRow
         /\ req[r].seen.user_id = req[r].user
         /\ req[r].seen.status = "active"
         /\ req[r].seen.expires_at # NULL
         /\ req[r].at >= req[r].seen.expires_at) =>
            /\ req[r].resp.code = 200
            /\ req[r].resp.status = "expired"
            /\ req[r].wrote
            /\ (Exists(req[r].sid) /\ NoEndOn(req[r].sid)) =>
                   sessions[req[r].sid].status = "expired"

\* Two gets both read the session active past its expiry before either
\* wrote, and both have answered.
C7_Witness ==
    \E r1, r2 \in Reqs :
        /\ r1 # r2 /\ Done(r1) /\ Done(r2)
        /\ req[r1].kind = "get" /\ req[r2].kind = "get"
        /\ req[r1].sid = req[r2].sid
        /\ req[r1].wrote /\ req[r2].wrote
        /\ req[r1].resp.status = "expired"
        /\ req[r2].resp.status = "expired"

\* C8: a finished end by the owner that read stored status active
\* answered 200 with status ended and the record has an ended_at; one
\* that read stored status ended answered 400 'Session already ended'
\* and wrote nothing.
C8_EndOnce ==
    \A r \in Reqs :
        (/\ req[r].kind = "end" /\ Done(r)
         /\ req[r].seen # NoRow
         /\ req[r].seen.user_id = req[r].user) =>
            /\ req[r].seen.status = "active" =>
                  /\ req[r].wrote
                  /\ Exists(req[r].sid) =>
                        /\ req[r].resp.code = 200
                        /\ req[r].resp.status = "ended"
                        /\ sessions[req[r].sid].ended_at # NULL
            /\ req[r].seen.status = "ended" =>
                  /\ req[r].resp.code = 400
                  /\ req[r].resp.message = "Session already ended"
                  /\ ~req[r].wrote

\* An end answered 200 and a later end of the same session answered 400.
C8_Witness ==
    \E r1, r2 \in Reqs :
        /\ r1 < r2 /\ Done(r1) /\ Done(r2)
        /\ req[r1].kind = "end" /\ req[r2].kind = "end"
        /\ req[r1].sid = req[r2].sid
        /\ req[r1].user = req[r2].user
        /\ req[r1].resp.code = 200
        /\ req[r2].resp.code = 400
        /\ sessions[req[r1].sid].status = "ended"

\* C9 (as claimed): a get or end answers 404 for an unknown id and 403
\* for a caller who is not the owner, and a step that changes a session
\* record is a step of a request of the record's owner.
C9_OwnerOnly ==
    [][/\ \A r \in Reqs :
            (req'[r].kind \in {"get", "end"} /\ req'[r].pc = "done") =>
                /\ req'[r].seen = NoRow => req'[r].resp.code = 404
                /\ (req'[r].seen # NoRow
                    /\ req'[r].seen.user_id # req'[r].user) =>
                        req'[r].resp.code = 403
       /\ \A s \in SessionIds :
            (Exists(s) /\ sessions'[s] # sessions[s]) =>
                \E r \in Reqs : /\ req'[r] # req[r]
                                /\ req'[r].user = sessions[s].user_id
      ]_vars

\* C10 (as claimed): expiry is detected by end as by get, so no end
\* treats a session past its expiry as active: a record with a timer is
\* never ended at or after its expires_at.
C10_ExpiryDetectedOnEnd ==
    \A s \in SessionIds :
        (/\ Exists(s) /\ sessions[s].expires_at # NULL
         /\ sessions[s].ended_at # NULL) =>
            sessions[s].ended_at < sessions[s].expires_at

\* C11: create stores a new session record with status active, mode
\* intake, the session_type and duration_minutes that the successful
\* consume returned, created_at the moment of the insert and
\* expires_at = created_at + duration_minutes minutes, owned by the caller,
\* and answers 201 with the id of that record.
C11_CreateStores ==
    [][\A r \in Reqs :
        (/\ req[r].pc = "consumed" /\ req[r].credit.success
         /\ req'[r].pc = "done" /\ req'[r].resp.code = 201) =>
            LET s == req'[r].sid IN
            /\ s \in SessionIds /\ ~Exists(s)
            /\ req'[r].resp.session_id = s
            /\ sessions'[s] # NoRow
            /\ sessions'[s].user_id = req[r].user
            /\ sessions'[s].status = "active"
            /\ sessions'[s].mode = "intake"
            /\ sessions'[s].session_type = req[r].credit.session_type
            /\ sessions'[s].duration_minutes = req[r].credit.duration_minutes
            /\ sessions'[s].created_at = now
            /\ sessions'[s].expires_at
                   = sessions'[s].created_at
                       + req[r].credit.duration_minutes * 60
            /\ sessions'[s].ended_at = NULL
            /\ \A x \in SessionIds \ {s} : sessions'[x] = sessions[x]
      ]_vars

\* A paid and a freemium session were created, each still as stored.
C11_Witness ==
    \E r1, r2 \in Reqs :
        /\ req[r1].kind = "create" /\ req[r1].resp.code = 201
        /\ req[r2].kind = "create" /\ req[r2].resp.code = 201
        /\ req[r1].credit.session_type = "freemium"
        /\ req[r2].credit.session_type = "paid"
        /\ sessions[req[r1].sid].expires_at
               = sessions[req[r1].sid].created_at + FreeMinutes * 60
        /\ sessions[req[r2].sid].expires_at
               = sessions[req[r2].sid].created_at + PaidMinutes * 60

\* C12: a get by the owner in the second in which the session was created,
\* with no end of the session in between, answers 200 with status active
\* and remaining_seconds within 1 second of duration_minutes * 60.
C12_GetAfterCreate ==
    \A r \in Reqs :
        (/\ req[r].kind = "get" /\ Done(r)
         /\ req[r].seen # NoRow
         /\ req[r].seen.user_id = req[r].user
         /\ req[r].seen.expires_at # NULL
         /\ req[r].seen.ended_at = NULL
         /\ req[r].at = req[r].seen.created_at) =>
            LET budget == req[r].seen.duration_minutes * 60 IN
            /\ req[r].resp.code = 200
            /\ req[r].resp.status = "active"
            /\ req[r].resp.seconds >= budget - 1
            /\ req[r].resp.seconds <= budget + 1

\* A create answered 201 and the owner's get of that session, issued
\* after it in the same second, answered.
C12_Witness ==
    \E r1, r2 \in Reqs :
        /\ r1 < r2 /\ Done(r1) /\ Done(r2)
        /\ req[r1].kind = "create" /\ req[r1].resp.code = 201
        /\ req[r2].kind = "get" /\ req[r2].sid = req[r1].sid
        /\ req[r2].user = req[r1].user
        /\ req[r2].seen # NoRow
        /\ req[r2].at = req[r2].seen.created_at
        /\ req[r2].resp.status = "active"
        /\ req[r2].resp.seconds = PaidMinutes * 60

\* The record a get answered 200 from has a timer.
TimedGet(r) ==
    /\ req[r].kind = "get" /\ Done(r) /\ req[r].resp.code = 200
    /\ req[r].seen # NoRow
    /\ req[r].seen.expires_at # NULL

\* C13 (as claimed): whatever the status of the session a get returns,
\* remaining_seconds = max(0, expires_at - now).
C13_RemainingAnyStatus ==
    \A r \in Reqs : TimedGet(r) =>
        req[r].resp.seconds = Max(0, req[r].seen.expires_at - req[r].at)

\* C13 (amended): a get that returns status active returns
\* remaining_seconds = max(0, expires_at - now); a get that returns any
\* other status, or a record without expires_at, returns 0; the value is
\* never negative and is 0 whenever now >= expires_at.
C13_RemainingWhenActive ==
    \A r \in Reqs :
        (req[r].kind = "get" /\ Done(r) /\ req[r].resp.code = 200) =>
            /\ req[r].resp.seconds >= 0
            /\ TimedGet(r) =>
                /\ req[r].resp.status = "active" =>
                      req[r].resp.seconds
                          = Max(0, req[r].seen.expires_at - req[r].at)
                /\ req[r].resp.status # "active" => req[r].resp.seconds = 0
                /\ req[r].at >= req[r].seen.expires_at =>
                      req[r].resp.seconds = 0
            /\ ~TimedGet(r) => req[r].resp.seconds = 0

\* A get of an ended session before its expiry answered 0.
C13_Witness ==
    \E r \in Reqs :
        /\ TimedGet(r)
        /\ req[r].resp.status = "ended"
        /\ req[r].at < req[r].seen.expires_at
        /\ req[r].resp.seconds = 0

\* C14: an end that answers 200 records ended_at = now and returns
\* duration_used_seconds = ended_at - created_at of the record, the whole
\* seconds elapsed since creation; it is never negative.
C14_DurationUsed ==
    [][\A r \in Reqs :
        (/\ req[r].pc = "ending" /\ req'[r].pc = "done"
         /\ req'[r].resp.code = 200) =>
            LET row == sessions'[req[r].sid] IN
            /\ row.ended_at = now
            /\ req'[r].resp.seconds = row.ended_at - row.created_at
            /\ req'[r].resp.seconds = now - sessions[req[r].sid].created_at
            /\ req'[r].resp.seconds >= 0
      ]_vars

\* An end of a session with a timer answered 200 a second or more after
\* the session was created, so that the time used is not the time left.
C14_Witness ==
    \E r \in Reqs :
        /\ req[r].kind = "end" /\ Done(r) /\ req[r].resp.code = 200
        /\ req[r].seen.expires_at # NULL
        /\ req[r].resp.seconds > 0
        /\ Exists(req[r].sid)
        /\ req[r].resp.seconds
               # sessions[req[r].sid].expires_at
                   - sessions[req[r].sid].ended_at

\* The entitlements that carry an order reference.
WithReference(ref) ==
    {e \in EntIds : entitlements[e] # NoRow
                    /\ entitlements[e].order_reference = ref}

\* C15: a call of add_paid_credits that starts when an entitlement with
\* its non-empty order_reference is recorded inserts nothing, leaves the
\* balances unchanged and returns already_processed = true, sessions_added
\* 0 and the id of the recorded entitlement: the id the first call
\* returned, when that call has returned.
C15_GrantIdempotent ==
    [][\A g \in Grants :
        (/\ grant[g].pc = "idle" /\ grant'[g].pc # "idle"
         /\ HasReference(grant'[g].ref)
         /\ WithReference(grant'[g].ref) # {}) =>
            /\ grant'[g].pc = "done"
            /\ grant'[g].result.already_processed
            /\ grant'[g].result.sessions_added = 0
            /\ grant'[g].result.entitlement_id \in WithReference(grant'[g].ref)
            /\ \A h \in Grants :
                 (/\ grant[h].pc = "done" /\ grant[h].ref = grant'[g].ref
                  /\ ~grant[h].result.already_processed
                  /\ Cardinality(WithReference(grant'[g].ref)) = 1) =>
                     grant'[g].result.entitlement_id
                         = grant[h].result.entitlement_id
            /\ entitlements' = entitlements
            /\ nextEid' = nextEid
            /\ free_remaining' = free_remaining
            /\ paid_remaining' = paid_remaining
      ]_vars

\* A call added a credit under an order reference and returned; a second
\* call with the same reference returned already processed with the same
\* entitlement id, and the user's paid balance is that of the one grant.
C15_Witness ==
    \E g, h \in Grants :
        /\ g < h /\ grant[g].pc = "done" /\ grant[h].pc = "done"
        /\ HasReference(grant[g].ref) /\ grant[h].ref = grant[g].ref
        /\ grant[h].user = grant[g].user
        /\ ~grant[g].result.already_processed
        /\ grant[g].result.sessions_added = 1
        /\ grant[h].result.already_processed
        /\ grant[h].result.entitlement_id = grant[g].result.entitlement_id
        /\ Cardinality(WithReference(grant[g].ref)) = 1
        /\ paid_remaining[grant[g].user] = 1

\* C16 (as claimed): at most one entitlement exists per order reference,
\* also when two calls with the same reference run concurrently.
C16_OneEntitlementPerReference ==
    \A ref \in OrderRefs : Cardinality(WithReference(ref)) <= 1

\* A step reads the balances for GET /users/credits.
ReadsCredits(r) == req[r].pc = "idle" /\ req'[r].kind = "credits"

\* C17: a call of GET /users/credits answers 200 with the user's balances
\* and changes no balance, no entitlement and no session, so any number of
\* calls leaves them as they were.
C17_BalanceIsPureRead ==
    [][\A r \in Reqs : ReadsCredits(r) =>
            /\ req'[r].pc = "done"
            /\ req'[r].resp.code = 200
            /\ req'[r].resp.free_remaining = free_remaining[req'[r].user]
            /\ req'[r].resp.paid_remaining = paid_remaining[req'[r].user]
            /\ free_remaining' = free_remaining
            /\ paid_remaining' = paid_remaining
            /\ entitlements' = entitlements
            /\ sessions' = sessions
      ]_vars

\* Two reads of a user who holds a free credit and a granted paid credit
\* returned the same balances.
C17_Witness ==
    \E r1, r2 \in Reqs :
        /\ r1 # r2 /\ Done(r1) /\ Done(r2)
        /\ req[r1].kind = "credits" /\ req[r2].kind = "credits"
        /\ req[r1].user = req[r2].user
        /\ req[r1].resp.free_remaining = 1
        /\ req[r1].resp.paid_remaining = 1
        /\ req[r2].resp.free_remaining = 1
        /\ req[r2].resp.paid_remaining = 1
        /\ free_remaining[req[r1].user] = 1
        /\ paid_remaining[req[r1].user] = 1
        /\ WithReference("order-1") # {}

\* The entitlements inserted for a user by calls of add_paid_credits.
Granted(u) ==
    {g \in Grants : grant[g].user = u /\ grant[g].eid # 0}

\* C18: consumption is final. A request whose consume succeeded and whose
\* session creation then failed is answered 500 with the balances left as
\* the consume left them; no step but the insert of an entitlement for the
\* user raises the user's total_available; and the total is always the
\* initial one, less the successful consumes, plus the credits granted.
C18_ConsumptionIsFinal ==
    [][/\ \A r \in Reqs :
            (/\ req[r].pc = "consumed" /\ req[r].credit.success
             /\ req'[r].pc = "done" /\ req'[r].resp.code # 201) =>
                /\ req'[r].resp.code = 500
                /\ free_remaining' = free_remaining
                /\ paid_remaining' = paid_remaining
       /\ \A u \in Users :
            /\ Balance(u)' > Balance(u) =>
                 \E g \in Grants :
                    /\ grant[g].pc = "inserting" /\ grant'[g].pc = "inserted"
                    /\ grant[g].user = u
                    /\ Balance(u)' = Balance(u) + grant[g].count
            /\ Balance(u)' = free0[u] + paid0[u]
                               - Cardinality(Successes(u))'
                               + Cardinality(Granted(u))'
      ]_vars

\* A consume succeeded, the creation failed with 500, and the user, who
\* was granted nothing, is left with one credit less than at the start.
C18_Witness ==
    \E r \in Reqs :
        /\ req[r].kind = "create" /\ Done(r)
        /\ req[r].credit.success
        /\ req[r].resp.code = 500
        /\ Granted(req[r].user) = {}
        /\ Balance(req[r].user) = free0[req[r].user] + paid0[req[r].user] - 1

\* C19: a PATCH that changes store_history from true to false stores
\* false and history_deletion_scheduled_at = now + the grace period of 30
\* days; one that changes it from false to true stores true and clears
\* the schedule; the 200 answer shows the new store_history and the new
\* schedule.
C19_SetPreference ==
    [][\A p \in Prefs :
        (pref[p].pc = "idle" /\ pref'[p].pc = "done") =>
            LET u == pref'[p].user
                value == pref'[p].value
                resp == pref'[p].resp IN
            /\ pref'[p].code = 200
            /\ (store_history[u] /\ ~value) =>
                 /\ store_history'[u] = FALSE
                 /\ history_deletion_scheduled_at'[u]
                        = now + GraceDays * 24 * 60 * 60
                 /\ resp.store_history = FALSE
                 /\ resp.history_deletion_scheduled_at
                        = now + GraceDays * 24 * 60 * 60
            /\ (~store_history[u] /\ value) =>
                 /\ store_history'[u] = TRUE
                 /\ history_deletion_scheduled_at'[u] = NULL
                 /\ resp.store_history = TRUE
                 /\ resp.history_deletion_scheduled_at = NULL
      ]_vars

\* A user turned the storage off and was answered with the schedule, then
\* turned it on again and was answered with no schedule.
C19_Witness ==
    \E p1, p2 \in Prefs :
        /\ p1 < p2 /\ pref[p1].pc = "done" /\ pref[p2].pc = "done"
        /\ pref[p1].user = pref[p2].user
        /\ pref[p1].before.store_history /\ ~pref[p1].value
        /\ ~pref[p1].resp.store_history
        /\ pref[p1].resp.history_deletion_scheduled_at
               = pref[p1].at + GraceSeconds
        /\ ~pref[p2].before.store_history /\ pref[p2].value
        /\ pref[p2].resp.store_history
        /\ pref[p2].resp.history_deletion_scheduled_at = NULL
        /\ history_deletion_scheduled_at[pref[p2].user] = NULL

\* Request p is the last PATCH of user u, it changed store_history from
\* false to true before the deletion time that an earlier change to false
\* had scheduled, and store_history is still true.
ReEnabledInTime(u, p) ==
    /\ pref[p].pc = "done" /\ pref[p].user = u
    /\ ~pref[p].before.store_history /\ pref[p].value
    /\ pref[p].before.history_deletion_scheduled_at # NULL
    /\ pref[p].at < pref[p].before.history_deletion_scheduled_at
    /\ \A q \in Prefs : q > p => pref[q].user # u
    /\ store_history[u]

\* C20: when a user has turned the storage off and then on again before
\* the scheduled deletion time, then, as long as store_history stays true,
\* no run of the sweep that starts after that selects the user, and no
\* such run deletes a session of the user.
C20_CancelledDeletion ==
    [][\A u \in Users, p \in Prefs : ReEnabledInTime(u, p) =>
        /\ sweep'.run > sweep.run => u \notin sweep'.batch
        /\ sweep.run > pref[p].runs =>
             /\ u \notin sweep.batch
             /\ \A s \in SessionIds :
                  (Exists(s) /\ sessions[s].user_id = u) =>
                      sessions'[s] = sessions[s]
      ]_vars

\* A user with a session turned the storage off and on again in time; the
\* sweep ran at the time the deletion had been scheduled for, and the
\* session is still there.
C20_Witness ==
    \E u \in Users, p \in Prefs :
        /\ ReEnabledInTime(u, p)
        /\ now >= pref[p].before.history_deletion_scheduled_at
        /\ sweep.run > pref[p].runs
        /\ sweep.pc = "idle"
        /\ RowsOf(u) # {}

\* User u is due: the storage is off, and the deletion time that the change
\* to false scheduled, the grace period after it, has come.
Due(u) ==
    /\ ~store_history[u]
    /\ history_deletion_scheduled_at[u] # NULL
    /\ history_deletion_scheduled_at[u]
           = store_history_changed_at[u] + GraceSeconds
    /\ history_deletion_scheduled_at[u] <= now

C24_SweepContinues ==
    [][/\ sweep'.run = sweep.run =>
            \A u \in sweep.batch \ sweep'.batch :
                \/ /\ sweep'.pc = "clearing" /\ sweep'.user = u
                   /\ \A s \in SessionIds :
                        sessions'[s] # NoRow => sessions'[s].user_id # u
                \/ u \in sweep'.errors
       /\ (sweep'.run = sweep.run /\ sweep'.errors # sweep.errors) =>
            sweep'.pc = IF sweep'.batch = {} THEN "idle" ELSE "deleting"
       /\ (sweep.pc # "idle" /\ sweep'.pc = "idle") =>
            /\ sweep'.batch = {}
            /\ sweep'.log = "History deletion job completed"
      ]_vars

\* The purge of one user of the batch failed and was logged, and the user
\* after it has been purged in the same run.
C24_Witness ==
    /\ sweep.pc = "clearing"
    /\ sweep.errors # {}
    /\ sweep.user \notin sweep.errors
    /\ RowsOf(sweep.user) = {}
    /\ \E u \in sweep.errors : RowsOf(u) # {}

\* C22: a history listing that starts while the user's store_history is
\* false is answered at once with 200, the empty session list, total 0,
\* has_more false and the message 'History storage is disabled', whatever
\* sessions are stored for the user; and no step of a history read changes
\* the stored sessions or conversation turns.
C22_DisabledListing ==
    [][/\ \A h \in Hists :
            (hist[h].pc = "idle" /\ hist'[h].pc # "idle"
               /\ hist'[h].kind = "list"
               /\ ~store_history[hist'[h].user]) =>
                /\ hist'[h].pc = "done"
                /\ hist'[h].code = 200
                /\ hist'[h].resp.sessions = {}
                /\ hist'[h].resp.total = 0
                /\ hist'[h].resp.has_more = FALSE
                /\ hist'[h].resp.message = "History storage is disabled"
       /\ hist' # hist =>
            /\ sessions' = sessions
            /\ conversation_turns' = conversation_turns
      ]_vars

\* A user who has a session with a turn turned the storage off and then
\* asked for the listing: the answer is the empty one, and the session and
\* its turn are still stored.
C22_Witness ==
    \E h \in Hists, s \in SessionIds :
        /\ hist[h].pc = "done" /\ hist[h].kind = "list"
        /\ ~hist[h].preferences.store_history
        /\ hist[h].resp = DisabledResponse
        /\ Exists(s) /\ sessions[s].user_id = hist[h].user
        /\ conversation_turns[s] = 1

\* The answers of get_session_messages_endpoint that are finished.
MessageReads == {h \in Hists : hist[h].pc = "done"
                                 /\ hist[h].kind = "messages"}

\* C23: get_messages answers 200 with the messages of the session only to
\* a caller whose store_history it read as true and whom it read as the
\* owner of the session; a request for a session that does not exist, for
\* the session of another user, or by a caller whose storage is disabled
\* is answered 404, and every 404 answer is the same, with nothing of the
\* session in it.
C23_MessagesOnlyForOwner ==
    [][/\ \A h \in Hists :
            (hist[h].pc = "idle" /\ hist'[h].pc # "idle"
               /\ hist'[h].kind = "messages") =>
                IF ~store_history[hist'[h].user]
                THEN hist'[h].pc = "done" /\ hist'[h].code = 404
                ELSE hist'[h].pc = "owner"
       /\ \A h \in Hists :
            (hist[h].pc = "owner" /\ hist'[h].pc # "owner") =>
                IF \/ ~Exists(hist[h].sid)
                   \/ sessions[hist[h].sid].user_id # hist[h].user
                THEN hist'[h].pc = "done" /\ hist'[h].code = 404
                ELSE /\ hist'[h].pc = "messages"
                     /\ hist'[h].owner = hist[h].user
       /\ \A h \in Hists :
            (hist[h].pc = "messages" /\ hist'[h].pc # "messages") =>
                /\ hist'[h].pc = "done" /\ hist'[h].code = 200
                /\ hist'[h].resp.messages
                       = conversation_turns[hist[h].sid]
       /\ \A h \in Hists :
            (hist'[h].pc = "done" /\ hist'[h].kind = "messages") =>
                /\ hist'[h].code \in {200, 404}
                /\ hist'[h].code = 200 =>
                     /\ hist'[h].preferences.store_history
                     /\ hist'[h].owner = hist'[h].user
                /\ hist'[h].code = 404 =>
                     /\ hist'[h].resp.message =
                          "Session not found or history storage disabled"
                     /\ hist'[h].resp.messages = NULL
                     /\ hist'[h].resp.session_id = 0
                     /\ \A g \in Hists :
                          (hist'[g].pc = "done" /\ hist'[g].kind = "messages"
                             /\ hist'[g].code = 404) =>
                              hist'[g].resp = hist'[h].resp
      ]_vars

\* Two requests for the same stored session were answered 404 with the same
\* answer: one by its owner, whose storage is disabled, and one by another
\* user, whose storage is enabled.
C23_Witness ==
    \E g, h \in MessageReads :
        /\ hist[g].sid = hist[h].sid /\ Exists(hist[g].sid)
        /\ sessions[hist[g].sid].user_id = hist[g].user
        /\ ~hist[g].preferences.store_history
        /\ hist[h].preferences.store_history
        /\ hist[h].owner # NULL /\ hist[h].owner # hist[h].user
        /\ hist[g].code = 404 /\ hist[h].code = 404
        /\ hist[g].resp = hist[h].resp

\* The forgeries of a token: its payload altered after signing, or signed
\* with another key.
Forgeries(token) == AlteredTokens(token) \cup ResignedTokens(token)

\* C25: a token that create_token(user_id) returned validates, under the
\* same key and before its expiry, to a payload whose sub is user_id; the
\* same token with its payload altered, or its payload signed with another
\* key, fails validation with a 401.
C25_TokenRoundTrip ==
    \A k \in Toks : tok[k].result.ok =>
        LET token == tok[k].result.token IN
        \A t \in {tok[k].at, now} :
            /\ t < tok[k].at + TOKEN_EXPIRY_HOURS * 3600 =>
                 /\ validate_token(token, t).ok
                 /\ validate_token(token, t).payload.sub = tok[k].user_id
            /\ \A forged \in Forgeries(token) :
                 /\ ~validate_token(forged, t).ok
                 /\ validate_token(forged, t).status_code = 401

\* A request with the token that login got was let through as the user of
\* the token, and a request with a forgery of that token was answered 401
\* without the handler being called.
C25_Witness ==
    \E k \in Toks, a, b \in Auths :
        /\ tok[k].result.ok
        /\ auth[a].header.token = tok[k].result.token
        /\ auth[a].called
        /\ auth[a].user.sub = tok[k].user_id
        /\ auth[b].header.token \in Forgeries(tok[k].result.token)
        /\ auth[b].pc = "done" /\ ~auth[b].called
        /\ auth[b].response.status_code = 401

\* The requests through require_auth that the handler has answered.
Answered == {a \in Auths : auth[a].pc = "done" /\ auth[a].called
                             /\ auth[a].handler # NoHttpResponse}

\* The life that the token of request a had left when it was validated.
Remaining(a) == auth[a].user.exp - auth[a].at

Acceptable(token, t) ==
    /\ token.signature = Sign(token.payload, JWT_SECRET)
    /\ token.payload.sub # NONE
    /\ token.payload.iat # NULL
    /\ token.payload.exp # NULL
    /\ t < token.payload.exp

\* C27: with a signing key configured, validate_token accepts a token only
\* if its signature verifies under the key, the time is before its exp and
\* sub, iat and exp are present, and rejects every other token with 401;
\* with no signing key configured, create_token and validate_token both
\* fail with 500, never with 401. The same holds for the requests through
\* require_auth, which answer with the status of the error without calling
\* the handler.
C27_ValidationErrors ==
    /\ \A token \in PresentedTokens :
         LET valid == validate_token(token, now) IN
         IF JWT_SECRET = ""
         THEN ~valid.ok /\ valid.status_code = 500
         ELSE /\ valid.ok => Acceptable(token, now)
              /\ ~Acceptable(token, now) =>
                   ~valid.ok /\ valid.status_code = 401
    /\ \A k \in Toks : tok[k].pc = "done" =>
         IF JWT_SECRET = ""
         THEN ~tok[k].result.ok /\ tok[k].result.status_code = 500
         ELSE tok[k].result.ok
    /\ \A a \in Auths :
         (auth[a].pc # "idle" /\ auth[a].header.token # NoToken) =>
            IF JWT_SECRET = ""
            THEN /\ auth[a].pc = "done" /\ ~auth[a].called
                 /\ auth[a].response.status_code = 500
            ELSE IF Acceptable(auth[a].header.token, auth[a].at)
            THEN auth[a].user = auth[a].header.token.payload
            ELSE /\ auth[a].pc = "done" /\ ~auth[a].called
                 /\ auth[a].response.status_code = 401

\* A request with a token was let through, and a later request with the
\* same token, made at its expiry, was answered 401 'Token has expired'.
C27_Witness ==
    \E a, b \in Auths :
        /\ auth[a].header.token # NoToken
        /\ auth[a].called
        /\ auth[b].header.token = auth[a].header.token
        /\ auth[b].at = auth[b].header.token.payload.exp
        /\ auth[b].pc = "done" /\ ~auth[b].called
        /\ auth[b].response.status_code = 401
        /\ auth[b].response.body = "Token has expired"

\* The forgot-password requests that are finished and had a valid email.
ForgotAnswered == {a \in Accts : acct[a].pc = "done"
                                   /\ acct[a].kind = "forgot"
                                   /\ acct[a].email # <<>>
                                   /\ Contains(acct[a].email, "@")}

\* C28: every forgot-password request with a syntactically valid email is
\* answered 200 with the one body 'If the email exists, a reset link will
\* be sent', whether a user with that email exists or not.
C28_ForgotPasswordUniform ==
    \A a \in ForgotAnswered :
        /\ acct[a].code = 200
        /\ acct[a].message = "If the email exists, a reset link will be sent"
        /\ acct[a].user_id = NONE
        /\ \A b \in ForgotAnswered :
             /\ acct[b].code = acct[a].code
             /\ acct[b].message = acct[a].message

\* A request for the email of a user, which set the reset token of the
\* user, and a request for an email that no user has, were answered alike.
C28_Witness ==
    \E a, b \in ForgotAnswered :
        /\ acct[a].taken /\ ~acct[b].taken
        /\ \E i \in AccountIds :
             /\ accounts[i] # NoRow
             /\ accounts[i].email = acct[a].email
             /\ accounts[i].password_reset_token # 0
        /\ users_by_email(acct[b].email) = {}
        /\ acct[a].code = 200 /\ acct[b].code = 200
        /\ acct[a].message = acct[b].message

\* The register requests that are finished.
Registered == {a \in Accts : acct[a].pc = "done" /\ acct[a].kind = "register"}

\* C29, as stated: no two users have the same email, compared without
\* case, in any reachable state; and a register whose email is registered,
\* when it looks the email up or when it comes to create the user after a
\* concurrent request has registered it, is answered 409 and creates no
\* user.
C29_UniqueEmailsAndConflict ==
    /\ \A i, j \in AccountIds :
         (i # j /\ accounts[i] # NoRow /\ accounts[j] # NoRow) =>
             lower(accounts[i].email) # lower(accounts[j].email)
    /\ \A a \in Registered :
         (acct[a].user # 0 \/ acct[a].taken) =>
             /\ acct[a].code = 409
             /\ acct[a].user_id = NONE

\* C30, as stated: a register with a well-formed email that no user has
\* and a password of 8 characters or more is answered 201 with the id of
\* the user it created; and a login with the same email and password that
\* follows it is answered 200 with a token whose subject is that id.
C30_RegisterThenLogin ==
    /\ \A a \in Registered :
         (/\ Contains(acct[a].email, "@") /\ Contains(acct[a].email, ".")
          /\ Len(acct[a].password) >= 8
          /\ acct[a].code # 409 /\ ~acct[a].taken) =>
             /\ acct[a].code = 201
             /\ acct[a].user \in AccountIds
             /\ acct[a].user_id = str(acct[a].user)
    /\ \A a \in Registered, b \in Accts :
         (/\ acct[a].code = 201 /\ a < b
          /\ acct[b].pc = "done" /\ acct[b].kind = "login"
          /\ acct[b].email = acct[a].email
          /\ acct[b].password = acct[a].password) =>
             /\ acct[b].code = 200
             /\ acct[b].token.payload.sub = acct[a].user_id

\* The save-summary requests that stored a summary, on either path.
Saved == {r \in Reqs : req[r].kind \in {"summary", "legacy"}
                         /\ req[r].pc = "done" /\ req[r].wrote}

\* C31: every stored summary has at most 2000 characters and is the text
\* that a save-summary request stored; and what a request stores, on the
\* path of a user's token and on the path of a development token, in a
\* new row and in an existing one, is the first 2000 characters of its
\* input without the white space at their ends.
C31_SummaryCapped ==
    /\ \A s \in SessionIds :
         (Exists(s) /\ sessions[s].summary # NoText) =>
             /\ len(sessions[s].summary) <= MaxSummary
             /\ \E r \in Saved : /\ req[r].sid = s
                                  /\ req[r].text = sessions[s].summary
    /\ \A r \in Saved :
         /\ req[r].text = strip_text(Slice(req[r].summary, MaxSummary))
         /\ len(req[r].text) <= MaxSummary

\* A summary of more than 2000 characters was stored with a user's token
\* in the session that existed, and another with a development token in a
\* new row, each cut to 2000 characters or fewer.
C31_Witness ==
    \E r, q \in Saved :
        /\ req[r].kind = "summary" /\ req[r].sid = 1
        /\ len(req[r].summary) > MaxSummary
        /\ sessions[1].summary = req[r].text
        /\ len(sessions[1].summary) = MaxSummary
        /\ req[q].kind = "legacy" /\ req[q].sid # 1
        /\ len(req[q].summary) > MaxSummary
        /\ sessions[req[q].sid].user_id = NULL
        /\ sessions[req[q].sid].summary = req[q].text
        /\ len(req[q].text) < MaxSummary

\* The get_pool calls that returned a pool.
Got == {c \in Calls : poolCall[c].kind = "get" /\ poolCall[c].pc = "done"
                        /\ poolCall[c].pool # 0}

\* C32, as stated: as long as no close_pool call has started, at most one
\* pool has been created and every get_pool call that returned, returned
\* that one pool, however the first callers interleave.
C32_OnePool ==
    (\A c \in Calls : poolCall[c].kind # "close") =>
        /\ Created <= 1
        /\ \A c, d \in Got : poolCall[c].pool = poolCall[d].pool

\* A get or end request of a user, on a session that exists and that
\* another user owns.
NonOwner(q) ==
    /\ q.kind \in {"get", "end"}
    /\ q.seen # NoRow
    /\ q.seen.user_id # q.user

\* C33: a get or end request of a user who is not the owner of the session
\* is answered 403 by the step that reads the session, and that step, the
\* only one of the request, leaves the sessions as they are: an active
\* session past its expiry is not marked expired.
C33_NonOwnerForbidden ==
    [][\A r \in Reqs :
         (req[r].pc = "idle" /\ req'[r].pc # "idle" /\ NonOwner(req'[r])) =>
             /\ req'[r].pc = "done"
             /\ req'[r].resp = Error(403, "Not authorized")
             /\ ~req'[r].wrote
             /\ sessions' = sessions]_vars

\* A user who is not the owner read an active session at or after its
\* expiry and was answered 403; the session is still active.
C33_Witness ==
    \E r \in Reqs :
        /\ req[r].pc = "done" /\ req[r].kind = "get" /\ NonOwner(req[r])
        /\ req[r].seen.status = "active"
        /\ req[r].at >= req[r].seen.expires_at
        /\ req[r].resp.code = 403
        /\ sessions[req[r].sid].status = "active"

\* The end requests on session s that were answered 200.
Ended200(q, s) == {r \in Reqs : /\ q[r].kind = "end" /\ q[r].sid = s
                                 /\ q[r].pc = "done"
                                 /\ q[r].resp.code = 200}

\* C34, as stated: of the end requests of the owner on one session, at
\* most one is answered 200, and ended_at, once written, is not written
\* again and does not change.
C34_OneEnd ==
    [][\A s \in SessionIds :
         /\ Cardinality(Ended200(req', s)) <= 1
         /\ (Exists(s) /\ sessions[s].ended_at # NULL) =>
                /\ sessions'[s].ended_at = sessions[s].ended_at
                /\ \A r \in Reqs :
                     (req[r].pc = "ending" /\ req[r].sid = s) =>
                         req'[r] = req[r]]_vars

\* The header carries no token that validate_token accepts at time t: it
\* is missing or malformed, or its token is badly signed, lacks a claim or
\* has expired.
BadHeader(header, t) ==
    \/ header.scheme # "Bearer "
    \/ header.token = NoToken
    \/ ~Acceptable(header.token, t)

\* The step is the first of request a, and the header of a is bad.
Refused(a) ==
    /\ auth[a].pc = "idle" /\ auth'[a].pc # "idle"
    /\ BadHeader(auth'[a].header, now)

\* The step does not invoke the handler of a, and changes no credit, no
\* session, no preference and no user.
NotInvoked(a) ==
    /\ auth'[a].pc = "done" /\ ~auth'[a].called
    /\ auth'[a].handler = NoHttpResponse
    /\ UNCHANGED <<storeVars, ledgerVars, retentionVars, historyVars,
                   accountVars>>

\* C35, as stated: a request through require_auth whose token is missing,
\* malformed, badly signed or expired is answered 401 without the handler
\* being invoked, and nothing stored changes.
C35_Rejected401 ==
    [][\A a \in Auths :
         Refused(a) =>
             /\ NotInvoked(a)
             /\ auth'[a].response.status_code = 401]_vars

\* C35, amended: such a request is answered without the handler being
\* invoked and nothing stored changes; the answer is 401, except that a
\* header with a token is answered 500 'Authentication not configured'
\* when the process has no signing key.
C35_RejectedUninvoked ==
    [][\A a \in Auths :
         Refused(a) =>
             /\ NotInvoked(a)
             /\ IF JWT_SECRET = "" /\ auth'[a].header.scheme = "Bearer "
                                   /\ auth'[a].header.token # NoToken
                THEN auth'[a].response =
                       AuthErrorResponse(
                           AuthError("Authentication not configured", 500))
                ELSE auth'[a].response.status_code = 401]_vars

\* A request with an expired token was answered 401 and left the
\* preference that an earlier request with the same token had written.
C35_Witness ==
    \E a, b \in Auths :
        /\ a < b
        /\ auth[a].called /\ auth[a].handler.status_code = 200
        /\ store_history[user_uuid(auth[a].user.sub)] = FALSE
        /\ auth[b].pc = "done" /\ ~auth[b].called
        /\ auth[b].header.token = auth[a].header.token
        /\ auth[b].at >= auth[b].header.token.payload.exp
        /\ auth[b].response.status_code = 401
        /\ auth[b].response.body = "Token has expired"

\* C36, as stated: a delete_user_history step of the sweep for a user whose
\* store_history is true when the step runs deletes no session, also when
\* the user turned the storage on again after the sweep had selected the
\* user.
C36_NoPurgeWhileEnabled ==
    [][(sweep.pc = "deleting" /\ sweep'.pc = "clearing"
          /\ store_history[sweep'.user]) =>
            /\ sessions' = sessions
            /\ conversation_turns' = conversation_turns]_vars

\* The schedule of user u is set and has come, with the storage off: what
\* get_users_pending_deletion selects.
StillDue(u) ==
    /\ ~store_history[u]
    /\ history_deletion_scheduled_at[u] # NULL
    /\ history_deletion_scheduled_at[u] <= now

\* C37: the sweep clears the schedule of a user only in the step after the
\* purge of that user succeeded; a step in which the attempt for a user
\* fails leaves every schedule as it is, and a later run that gets its
\* list selects every user of the failed attempts whose schedule still
\* stands; a run selects only users whose schedule is set; and a schedule
\* that is cleared is set again only by a change of store_history from
\* true to false.
C37_ClearOnlyAfterPurge ==
    [][/\ (sweep' # sweep /\ sweep'.pc = "clearing") =>
            /\ sweep.pc = "deleting"
            /\ sweep'.user \in sweep.batch
            /\ sessions' = delete_user_history(sweep'.user)
            /\ history_deletion_scheduled_at'
                   = history_deletion_scheduled_at
       /\ \A u \in Users :
            (sweep' # sweep /\ history_deletion_scheduled_at'[u]
                                  # history_deletion_scheduled_at[u]) =>
                /\ sweep.pc = "clearing" /\ sweep.user = u
                /\ history_deletion_scheduled_at'[u] = NULL
                /\ u \notin sweep'.errors
       /\ sweep'.errors # sweep.errors =>
            history_deletion_scheduled_at' = history_deletion_scheduled_at
       /\ (sweep'.run > sweep.run
             /\ sweep'.log # "History deletion job failed") =>
            /\ \A u \in sweep.errors : StillDue(u) => u \in sweep'.batch
            /\ \A u \in sweep'.batch : StillDue(u)
       /\ \A u \in Users :
            (history_deletion_scheduled_at[u] = NULL
               /\ history_deletion_scheduled_at'[u] # NULL) =>
                store_history[u] /\ ~store_history'[u]
      ]_vars

\* The purge of a due user failed in a run that has ended: the schedule of
\* the user stands, the sessions are there, and a later run can start.
C37_Witness ==
    \E u \in sweep.errors :
        /\ sweep.pc = "idle" /\ sweep.run < MaxSweeps
        /\ StillDue(u)
        /\ RowsOf(u) # {}

\* The forgot-password requests that set reset token t on a user.
Issued(t) == {f \in Accts : /\ acct[f].kind = "forgot" /\ acct[f].pc = "done"
                            /\ acct[f].taken /\ acct[f].reset_token = t}

\* A reset-password with token t has succeeded.
Spent(t) ==
    \E b \in Accts : /\ acct[b].kind = "reset" /\ acct[b].pc = "done"
                     /\ acct[b].code = 200 /\ acct[b].reset_token = t

\* Token t was never set, or an hour or more has passed since it was.
Lapsed(t) == \A f \in Issued(t) : now >= acct[f].at + 3600

\* A later forgot-password for the same email set a newer token.
Superseded(t) ==
    \E f \in Issued(t), g \in Accts :
        /\ acct[g].kind = "forgot" /\ acct[g].pc = "done" /\ acct[g].taken
        /\ acct[g].email = acct[f].email
        /\ acct[g].reset_token > t

Chained(a) ==
    /\ tok[1].pc = "done" /\ tok[1].result.ok
    /\ \A b \in 1..a :
        /\ auth[b].pc # "idle"
        /\ auth[b].header = [scheme |-> "Bearer ", token |-> ClientToken(b)]
        /\ IF b = 1
           THEN auth[b].at - tok[1].at
                    < TOKEN_REFRESH_THRESHOLD_MINUTES * 60
           ELSE /\ auth[b - 1].pc = "done"
                /\ auth[b - 1].response.status_code < 400
                /\ auth[b].at - auth[b - 1].at
                       < TOKEN_REFRESH_THRESHOLD_MINUTES * 60

\* C39: a request of a client that started with a freshly issued token,
\* made its requests less than 30 minutes apart, got a status below 400 to
\* each earlier one and replaced its token with every X-New-Token is not
\* answered 'Token has expired': its token is accepted and the handler is
\* reached.
C39_ChainNeverExpires ==
    \A a \in Auths :
        Chained(a) =>
            /\ auth[a].response.body # "Token has expired"
            /\ auth[a].user = auth[a].header.token.payload
            /\ auth[a].pc = "done" => auth[a].called

\* The third request of such a client was made after the token of login
\* had expired, and was answered by the handler.
C39_Witness ==
    /\ Chained(MaxChain)
    /\ auth[MaxChain].at >= tok[1].result.token.payload.exp
    /\ auth[MaxChain].pc = "done"
    /\ auth[MaxChain].response.status_code = 200

====
